---- MODULE Spec2Model ----
(***************************************************************************)
(* Model of tools/check_cfi.py: the check of DWARF CFA offsets against the *)
(* offsets inferred from the disassembly of hand-written assembly.         *)
(*                                                                         *)
(* Values.  Optional[int] is a sequence of length at most one: None is     *)
(* <<>> and the integer v is <<v>>.  A dict is a function on its keys.     *)
(* An instruction text is a record [mn, form, n, tgt]: the mnemonic, the   *)
(* shape of the operand list, the number captured by the pattern's first   *)
(* group (an immediate, or the number of registers of a list) and the      *)
(* hexadecimal operand of a control transfer.                              *)
(***************************************************************************)
EXTENDS Integers, Sequences, FiniteSets, TLC

VARIABLES
  arch,      \* the module-level global `arch`
  insts,     \* get_inferred_cfa_offsets / check_fde: the instruction list
  i,         \* get_inferred_cfa_offsets: index of the next instruction of the for loop
  offset,    \* get_inferred_cfa_offsets: the running offset
  result,    \* get_inferred_cfa_offsets: the dict PC -> offset
  fde,       \* check_fde / check_lib: the FDE under way
  srcs,      \* check_fde / check_lib: the dict PC -> "file:line"
  dwarf_cfa_offsets,     \* check_fde: the offsets declared by the FDE
  inferred_cfa_offsets,  \* check_fde: the offsets inferred from the instructions
  lib,       \* check_lib: what the dump tools print for the library file
  fdes,      \* check_lib: the list returned by get_fde
  fi,        \* check_lib: index of the next FDE of the for loop
  asms,      \* check_lib: the deque of the blocks returned by get_asm
  seen,      \* check_lib: the set of covered PCs
  fail,      \* check_lib: the failure count
  all_insts, \* check_lib: the instructions of the FDE under way
  name,      \* check_lib: the symbol name of the FDE under way
  args,      \* main: the parsed command line, [srcs, out]
  libs,      \* main: the list of the libraries to check
  li,        \* main: index of the next library of the for loop
  status,    \* the exit status of the process, None while it runs
  marker,    \* whether the file of --out has been written
  sections,  \* get_src: the sections of the line-table dump
  si,        \* get_src: index of the next section of the for loop
  results,   \* get_src: the rows collected so far
  tasks,     \* the locals of the check_lib calls that run as tasks
  stdout,    \* the lines printed so far
  err,       \* the Error raised by the function under way, if any
  pc         \* control point of the function under way

inferVars == <<i, offset, result>>

fdeVars == <<fde, srcs, dwarf_cfa_offsets, inferred_cfa_offsets>>

libVars == <<lib, fdes, fi, asms, seen, fail, all_insts, name>>

mainVars == <<args, libs, li, status, marker>>

srcVars == <<sections, si, results>>

taskVars == <<tasks>>

vars == <<arch, insts, inferVars, fdeVars, libVars, mainVars, srcVars, taskVars,
          stdout, err, pc>>

(***************************************************************************)
(* Bounds of the checked instances.                                        *)
(***************************************************************************)
\* get_inferred_cfa_offsets is run on the functions whose instruction
\* addresses are drawn from 1..MaxInstPc.
MaxInstPc == 3

\* check_fde is run on the functions whose instruction, rule and source-line
\* addresses are drawn from 1..MaxFdeAddr.
MaxFdeAddr == 2

\* check_lib is run on the libraries whose FDE, block and source-line
\* addresses are drawn from 1..MaxLibAddr.
MaxLibAddr == 2

\* main is run on up to MaxLibs libraries whose FDE, block and source-line
\* addresses are drawn from 1..MaxMainAddr.
MaxLibs == 3

MaxMainAddr == 1

\* get_src is run on the dumps of up to MaxSections line-table sections whose
\* row addresses are drawn from 1..MaxSrcPc.
MaxSections == 2

MaxSrcPc == 2

\* check_lib runs as one task for each of two libraries whose FDE, block and
\* source-line addresses are 1..MaxTaskAddr.
MaxTaskAddr == 1

(***************************************************************************)
(* Module-level tables.                                                    *)
(***************************************************************************)
ARCHES == <<"i386", "x86_64", "arm", "aarch64", "riscv64">>

ArchSet == {ARCHES[k] : k \in 1..Len(ARCHES)}

SP(a) ==
  CASE a = "arm" -> "SP"
    [] a = "aarch64" -> "WSP"
    [] a = "i386" -> "ESP"
    [] a = "x86_64" -> "RSP"
    [] a = "riscv64" -> "X2"

\* INITIAL_OFFSET.get(arch, 0)
INITIAL_OFFSET(a) ==
  CASE a = "i386" -> 4
    [] a = "x86_64" -> 8
    [] OTHER -> 0

None == <<>>

Some(v) == <<v>>

\* Error(address, message) and the absence of one.
Error(address, message) == [raised |-> TRUE, address |-> address, message |-> message]

NoError == [raised |-> FALSE, address |-> 0, message |-> <<>>]

(***************************************************************************)
(* get_inst_semantics: the ordered list of (pattern, adjust_offset,        *)
(* adjust_pc).  A pattern is the set of mnemonics and the set of operand   *)
(* shapes its regular expression accepts (fullmatch); `delta` names the    *)
(* adjust_offset lambda and `pcadj` tells whether adjust_pc is given.      *)
(***************************************************************************)
Forms ==
  {"none", "reg", "ind", "imm_sp", "imm_reg", "target", "reg_target",
   "sp_imm", "reg_imm", "pre", "post", "dlist", "list"}

add(mns, forms, delta, pcadj) ==
  [mns |-> mns, forms |-> forms, delta |-> delta, pcadj |-> pcadj]

ptr_size(a) == IF a = "i386" THEN 4 ELSE 8

X86Rexprs ==
  << add({"pushq", "pushl"}, Forms \ {"none"}, "ptr", FALSE),
     add({"popq", "popl"}, Forms \ {"none"}, "-ptr", FALSE),
     add({"subq", "subl"}, {"imm_sp"}, "imm", FALSE),
     add({"addq", "addl"}, {"imm_sp"}, "-imm", FALSE),
     add({"callq", "calll"}, {"target"}, "ptr", TRUE),
     add({"jmp", "je", "jne", "jb", "jae"}, {"target"}, "zero", TRUE) >>

ArmRexprs ==
  << add({"sub"}, {"sp_imm"}, "imm", FALSE),
     add({"add"}, {"sp_imm"}, "-imm", FALSE),
     add({"str"}, {"pre"}, "imm", FALSE),
     add({"ldr"}, {"post"}, "-imm", FALSE),
     add({"stp"}, {"pre"}, "imm", FALSE),
     add({"ldp"}, {"post"}, "-imm", FALSE),
     add({"vpush"}, {"dlist"}, "8len", FALSE),
     add({"vpop"}, {"dlist"}, "-8len", FALSE),
     add({"push", "vpush", "push.w", "vpush.w"}, {"dlist", "list"}, "4len", FALSE),
     add({"pop", "vpop", "pop.w", "vpop.w"}, {"dlist", "list"}, "-4len", FALSE),
     add({"cbz", "cbnz"}, {"reg_target"}, "zero", TRUE),
     add({"b", "bl", "beq", "bne", "blx"}, {"target"}, "zero", TRUE) >>

RiscvRexprs ==
  << add({"addi"}, {"sp_imm"}, "-imm", FALSE),
     add({"beq", "bne", "beqz", "bnez", "blt", "bge"}, {"reg_target"}, "zero", TRUE),
     add({"j", "jal"}, {"target", "reg_target"}, "zero", TRUE) >>

get_inst_semantics(a) ==
  (IF a \in {"i386", "x86_64"} THEN X86Rexprs ELSE <<>>)
    \o (IF a \in {"arm", "aarch64"} THEN ArmRexprs ELSE <<>>)
    \o (IF a \in {"riscv64"} THEN RiscvRexprs ELSE <<>>)

\* rexpr.fullmatch(inst)
fullmatch(rexpr, inst) == inst.mn \in rexpr.mns /\ inst.form \in rexpr.forms

\* adjust_offset(m)
adjust_offset(rexpr, inst, a) ==
  CASE rexpr.delta = "zero" -> 0
    [] rexpr.delta = "ptr" -> ptr_size(a)
    [] rexpr.delta = "-ptr" -> 0 - ptr_size(a)
    [] rexpr.delta = "imm" -> inst.n
    [] rexpr.delta = "-imm" -> 0 - inst.n
    [] rexpr.delta = "8len" -> 8 * inst.n
    [] rexpr.delta = "-8len" -> 0 - 8 * inst.n
    [] rexpr.delta = "4len" -> 4 * inst.n
    [] rexpr.delta = "-4len" -> 0 - 4 * inst.n

\* FirstMatch taking the last pattern of the list that matches.
FirstMatch_Last(rexprs, inst) ==
  LET hits == {k \in 1..Len(rexprs) : fullmatch(rexprs[k], inst)}
  IN IF hits = {} THEN 0 ELSE CHOOSE k \in hits : \A h \in hits : h <= k

\* Index of the first pattern of the list that matches, 0 when none does
\* ("First matched pattern wins").
FirstMatch(rexprs, inst) ==
  LET hits == {k \in 1..Len(rexprs) : fullmatch(rexprs[k], inst)}
  IN IF hits = {} THEN 0 ELSE CHOOSE k \in hits : \A h \in hits : k <= h

(***************************************************************************)
(* get_inferred_cfa_offsets: one iteration of `for pc, inst in insts`.     *)
(* The loop state is [offset, result, err]; lo and hi are insts[0].pc and  *)
(* insts[-1].pc.                                                           *)
(***************************************************************************)
EmptyDict == [p \in {} |-> 0]

\* sorted(S) for a set of addresses
RECURSIVE SortedSeq(_)
SortedSeq(S) ==
  IF S = {} THEN <<>>
  ELSE LET m == CHOOSE x \in S : \A y \in S : x <= y
       IN <<m>> \o SortedSeq(S \ {m})

\* result[key] = value
DictSet(d, key, value) ==
  [p \in DOMAIN d \cup {key} |-> IF p = key THEN value ELSE d[p]]

\* A setdefault that does not insert the key.
setdefault_dict_Absent(d, key, value) == d

\* offset = result.setdefault(pc, offset): the dict afterwards
setdefault_dict(d, key, value) == IF key \in DOMAIN d THEN d ELSE DictSet(d, key, value)

\* setdefault_value returning the argument also when the key is present.
setdefault_value_Carry(d, key, value) == value

\* offset = result.setdefault(pc, offset): the value returned
setdefault_value(d, key, value) == IF key \in DOMAIN d THEN d[key] ELSE value

\* InRange without the lower limit.
InRange_NoLower(lo, hi, new_pc) == new_pc <= hi

\* insts[0].pc <= new_pc <= insts[-1].pc
InRange(lo, hi, new_pc) == lo <= new_pc /\ new_pc <= hi

\* A test of line 225 that never finds a difference.
Inconsistent_Never(res, new_pc, new_offset) == FALSE

\* new_pc in result and result[new_pc] != new_offset
Inconsistent(res, new_pc, new_offset) ==
  new_pc \in DOMAIN res /\ res[new_pc] # new_offset

\* BranchTo with the Error attributed to the branch target instead of the branch.
BranchTo_AtTarget(st, at_pc, new_pc, new_offset) ==
  IF Inconsistent(st.result, new_pc, new_offset)
  THEN [st EXCEPT !.err =
          Error(new_pc, <<"Inconsistent branch", st.result[new_pc], new_offset>>)]
  ELSE [st EXCEPT !.result = DictSet(st.result, new_pc, new_offset)]

\* BranchTo that leaves a target at or before the branch alone.
BranchTo_ForwardOnly(st, at_pc, new_pc, new_offset) ==
  IF new_pc <= at_pc
  THEN st
  ELSE IF Inconsistent(st.result, new_pc, new_offset)
       THEN [st EXCEPT !.err =
               Error(at_pc, <<"Inconsistent branch", st.result[new_pc], new_offset>>)]
       ELSE [st EXCEPT !.result = DictSet(st.result, new_pc, new_offset)]

\* The body of `if adjust_pc:` for a target inside the function.
BranchTo(st, at_pc, new_pc, new_offset) ==
  IF Inconsistent(st.result, new_pc, new_offset)
  THEN [st EXCEPT !.err =
          Error(at_pc, <<"Inconsistent branch", st.result[new_pc], new_offset>>)]
  ELSE [st EXCEPT !.result = DictSet(st.result, new_pc, new_offset)]

\* ApplyMatch with the delta applied before the offset of the PC is recorded
\* (the dict entry of the instruction itself gets the adjusted offset).
ApplyMatch_Early(st, rexpr, ins, lo, hi, a) ==
  LET new_offset == st.offset + adjust_offset(rexpr, ins.inst, a)
      new_pc == ins.inst.tgt
  IN IF rexpr.pcadj
     THEN IF InRange(lo, hi, new_pc)
          THEN BranchTo(st, ins.pc, new_pc, new_offset)
          ELSE st
     ELSE [st EXCEPT !.offset = new_offset,
                     !.result = DictSet(st.result, ins.pc, new_offset)]

\* ApplyMatch that records the offset in force at the target, without the delta.
ApplyMatch_PlainTarget(st, rexpr, ins, lo, hi, a) ==
  LET new_offset == st.offset + adjust_offset(rexpr, ins.inst, a)
      new_pc == ins.inst.tgt
  IN IF rexpr.pcadj
     THEN IF InRange(lo, hi, new_pc)
          THEN BranchTo(st, ins.pc, new_pc, st.offset)
          ELSE st
     ELSE [st EXCEPT !.offset = new_offset]

\* ApplyMatch that carries the delta of a control transfer to the next instruction.
ApplyMatch_Carried(st, rexpr, ins, lo, hi, a) ==
  LET new_offset == st.offset + adjust_offset(rexpr, ins.inst, a)
      new_pc == ins.inst.tgt
      st2 == [st EXCEPT !.offset = new_offset]
  IN IF rexpr.pcadj /\ InRange(lo, hi, new_pc)
     THEN BranchTo(st2, ins.pc, new_pc, new_offset)
     ELSE st2

\* The body of `if m:` for the first matching pattern.
ApplyMatch(st, rexpr, ins, lo, hi, a) ==
  LET new_offset == st.offset + adjust_offset(rexpr, ins.inst, a)
      new_pc == ins.inst.tgt
  IN IF rexpr.pcadj
     THEN IF InRange(lo, hi, new_pc)
          THEN BranchTo(st, ins.pc, new_pc, new_offset)
          ELSE st
     ELSE [st EXCEPT !.offset = new_offset]

InferInst(st, ins, lo, hi, a) ==
  LET st1 == [offset |-> setdefault_value(st.result, ins.pc, st.offset),
              result |-> setdefault_dict(st.result, ins.pc, st.offset),
              err |-> NoError]
      rexprs == get_inst_semantics(a)
      k == FirstMatch(rexprs, ins.inst)
  IN IF k = 0 THEN st1 ELSE ApplyMatch(st1, rexprs[k], ins, lo, hi, a)

\* The loop from instruction k on; stops at the first Error.
RECURSIVE InferFrom(_, _, _, _)
InferFrom(st, list, k, a) ==
  IF k > Len(list) \/ st.err.raised
  THEN st
  ELSE InferFrom(InferInst(st, list[k], list[1].pc, list[Len(list)].pc, a), list, k + 1, a)

\* get_inferred_cfa_offsets(insts): [result, err]
get_inferred_cfa_offsets(list, a) ==
  InferFrom([offset |-> INITIAL_OFFSET(a), result |-> EmptyDict, err |-> NoError],
            list, 1, a)

(***************************************************************************)
(* get_dwarf_cfa_offsets.  fde.data is the list of the "0x..: CFA=reg+off" *)
(* rows of the dump, in dump order, each [pc, reg, o]: o is the text after *)
(* the register name, <<>> when empty and <<k>> when it reads as k.        *)
(***************************************************************************)
Rule(at, reg, o) == [pc |-> at, reg |-> reg, o |-> o]

\* int(o or "0") if r == sp else None
RuleOffset(rule, a) ==
  IF rule.reg = SP(a)
  THEN Some(IF rule.o = <<>> THEN 0 ELSE rule.o[1])
  ELSE None

\* cfa = deque([(int(a, 0), ...) for a, r, o in m])
ParseCfa(data, a) ==
  [k \in 1..Len(data) |-> [pc |-> data[k].pc, offset |-> RuleOffset(data[k], a)]]

\* NoTrivialCfa that wants at least one rule.
NoTrivialCfa_NonEmpty(cfa) == cfa # <<>> /\ \A k \in 1..Len(cfa) : cfa[k].offset = None

\* all(offset is None for add, offset in cfa)
NoTrivialCfa(cfa) == \A k \in 1..Len(cfa) : cfa[k].offset = None

\* PopRules that takes only the rules below the PC.
RECURSIVE PopRules_Below(_, _, _)
PopRules_Below(cfa, off, at) ==
  IF cfa # <<>> /\ cfa[1].pc < at
  THEN PopRules_Below(Tail(cfa), cfa[1].offset, at)
  ELSE [cfa |-> cfa, offset |-> off]

\* while cfa and cfa[0][0] <= pc: offset = cfa.popleft()[1]  -- [cfa, offset] afterwards
RECURSIVE PopRules(_, _, _)
PopRules(cfa, off, at) ==
  IF cfa # <<>> /\ cfa[1].pc <= at
  THEN PopRules(Tail(cfa), cfa[1].offset, at)
  ELSE [cfa |-> cfa, offset |-> off]

\* for pc, inst in insts: ...; result[pc] = offset
RECURSIVE DwarfFrom(_, _, _, _, _)
DwarfFrom(list, k, cfa, off, res) ==
  IF k > Len(list) THEN res
  ELSE LET p == PopRules(cfa, off, list[k].pc)
       IN DwarfFrom(list, k + 1, p.cfa, p.offset, DictSet(res, list[k].pc, p.offset))

\* get_dwarf_cfa_offsets(insts, fde): [result, err]
get_dwarf_cfa_offsets(list, f, a) ==
  LET cfa == ParseCfa(f.data, a)
  IN IF NoTrivialCfa(cfa)
     THEN [result |-> EmptyDict,
           err |-> Error(list[1].pc, <<"No trivial CFA offsets. Add function to IGNORE list?">>)]
     ELSE [result |-> DwarfFrom(list, 1, cfa, Some(INITIAL_OFFSET(a)), EmptyDict),
           err |-> NoError]

(***************************************************************************)
(* check_fde: the comparison loop.  srcs is the dict PC -> "file:line".    *)
(***************************************************************************)
\* Differs without the test for None.
Differs_NoneCounts(dwarf, inferred, at) == dwarf[at] # Some(inferred[at])

\* dwarf_cfa_offsets[pc] is not None and dwarf_cfa_offsets[pc] != inferred_cfa_offsets[pc]
Differs(dwarf, inferred, at) ==
  dwarf[at] # None /\ dwarf[at] # Some(inferred[at])

\* srcs.get(pc, "")
SrcGet(sources, at) == IF at \in DOMAIN sources THEN sources[at] ELSE <<>>

\* The lines printed before the raise: one per instruction of the function.
Trace(list, dwarf, inferred, sources) ==
  [k \in 1..Len(list) |->
     [line |-> "trace", pc |-> list[k].pc, src |-> SrcGet(sources, list[k].pc),
      dwarf |-> dwarf[list[k].pc], inferred |-> inferred[list[k].pc],
      inst |-> list[k].inst]]

\* Reported without the test for a source line.
Reported_Any(sources, at) == TRUE

\* if pc in srcs (... print ...; raise)
Reported(sources, at) == at \in DOMAIN sources

\* The for loop of check_fde from instruction k on: [err, out]
RECURSIVE CompareFrom(_, _, _, _, _)
CompareFrom(list, k, dwarf, inferred, sources) ==
  IF k > Len(list)
  THEN [err |-> NoError, out |-> <<>>]
  ELSE IF Differs(dwarf, inferred, list[k].pc) /\ Reported(sources, list[k].pc)
       THEN [err |-> Error(list[k].pc, <<"DWARF offset does not match inferred offset">>),
             out |-> Trace(list, dwarf, inferred, sources)]
       ELSE CompareFrom(list, k + 1, dwarf, inferred, sources)

\* Compare raising for the last reportable instruction instead of the first.
Compare_Last(list, dwarf, inferred, sources) ==
  LET hits == {k \in 1..Len(list) :
                 Differs(dwarf, inferred, list[k].pc) /\ Reported(sources, list[k].pc)}
  IN IF hits = {}
     THEN [err |-> NoError, out |-> <<>>]
     ELSE LET k == CHOOSE h \in hits : \A g \in hits : g <= h
          IN [err |-> Error(list[k].pc, <<"DWARF offset does not match inferred offset">>),
              out |-> Trace(list, dwarf, inferred, sources)]

Compare(list, dwarf, inferred, sources) == CompareFrom(list, 1, dwarf, inferred, sources)

\* check_fde(fde, insts, srcs): [err, out]
check_fde(f, list, sources, a) ==
  LET d == get_dwarf_cfa_offsets(list, f, a)
      inf == get_inferred_cfa_offsets(list, a)
  IN IF d.err.raised THEN [err |-> d.err, out |-> <<>>]
     ELSE IF inf.err.raised THEN [err |-> inf.err, out |-> <<>>]
     ELSE Compare(list, d.result, inf.result, sources)

(***************************************************************************)
(* check_lib.  A symbol name is the sequence of its pieces, so that        *)
(* str.startswith is the prefix relation of sequences.  A block of get_asm *)
(* is [pc, name, data], data being its lines [pc, inst].                   *)
(***************************************************************************)
IGNORE ==
  << [key |-> <<"art_quick_osr_stub">>, arches |-> {"i386"}],
     [key |-> <<"art_quick_do_long_jump">>, arches |-> {"x86_64"}],
     [key |-> <<"art_quick_generic_jni_trampoline">>, arches |-> {"arm", "i386", "x86_64"}],
     [key |-> <<"art_quick_throw_null_pointer_exception_from_signal">>, arches |-> ArchSet],
     [key |-> <<"nterp_op_return">>,
      arches |-> {"arm", "aarch64", "i386", "x86_64", "riscv64"}] >>

\* asm.name.startswith(n)
startswith(str, prefix) ==
  Len(prefix) <= Len(str) /\ SubSeq(str, 1, Len(prefix)) = prefix

\* any(asm.name.startswith(n) and arch in a for n, a in IGNORE.items())
Ignored(asm, a) ==
  \E k \in 1..Len(IGNORE) : startswith(asm.name, IGNORE[k].key) /\ a \in IGNORE[k].arches

\* get_instructions(asm)
get_instructions(asm) ==
  [k \in 1..Len(asm.data) |-> [pc |-> asm.data[k].pc, inst |-> asm.data[k].inst]]

\* [inst.pc for inst in insts] as a set
PcsOf(list) == {list[k].pc : k \in 1..Len(list)}

\* TakeIgnored without the update of seen.
TakeIgnored_NoSeen(st, asm) == st

\* seen.update([inst.pc for inst in insts]); continue
TakeIgnored(st, asm) == [st EXCEPT !.seen = @ \cup PcsOf(get_instructions(asm))]

\* TakeBlock that puts the instructions of the block in front of the list.
TakeBlock_Front(st, asm) ==
  [st EXCEPT !.all_insts = get_instructions(asm) \o @,
             !.name = IF @ # <<>> THEN @ ELSE asm.name]

\* all_insts.extend(insts); name = name or asm.name
TakeBlock(st, asm) ==
  [st EXCEPT !.all_insts = @ \o get_instructions(asm),
             !.name = IF @ # <<>> THEN @ ELSE asm.name]

\* The while loop of one FDE: st is [asms, all_insts, name, seen].
RECURSIVE PopAsms(_, _, _)
PopAsms(st, f, a) ==
  IF st.asms # <<>> /\ st.asms[1].pc < f.end
  THEN LET asm == st.asms[1]
           popped == [st EXCEPT !.asms = Tail(st.asms)]
       IN IF asm.pc < f.pc
          THEN PopAsms(popped, f, a)
          ELSE IF Ignored(asm, a)
               THEN PopAsms(TakeIgnored(popped, asm), f, a)
               ELSE PopAsms(TakeBlock(popped, asm), f, a)
  ELSE st

\* Caught for an except clause that names the mismatch only.
Caught_MismatchOnly(e) ==
  e.raised /\ e.message = <<"DWARF offset does not match inferred offset">>

\* except Error as e
Caught(e) == e.raised

\* The line printed by the except clause.
ErrorLine(e, sources, nm) ==
  [line |-> "error", address |-> e.address, src |-> SrcGet(sources, e.address),
   name |-> nm, message |-> e.message]

\* UpdateSeen placed inside the try statement, after the call.
UpdateSeen_InTry(s, list, e) == IF e.raised THEN s ELSE s \cup PcsOf(list)

\* seen.update([inst.pc for inst in all_insts]) after the try statement
UpdateSeen(s, list, e) == s \cup PcsOf(list)

\* A count that adds two for an Error.
CountError_Twice(n, e) == IF e.raised THEN n + 2 ELSE n

\* fail += 1 in the except clause
CountError(n, e) == IF e.raised THEN n + 1 ELSE n

\* A skip that drops the blocks below the end of the FDE.
SkipFde_Popping(st, f) ==
  [st EXCEPT !.asms = SelectSeq(@, LAMBDA b : b.pc >= f.end)]

\* if fde.pc not in srcs: continue
SkipFde(st, f) == st

\* One iteration of `for fde in fdes`: st is [asms, seen, fail, all_insts,
\* name, stdout, err, escaped]; all_insts, name and err keep their former
\* values when the iteration does not assign them.
FdeIteration(st, f, sources, a) ==
  IF f.pc \notin DOMAIN sources
  THEN SkipFde(st, f)
  ELSE LET p == PopAsms([asms |-> st.asms, all_insts |-> <<>>, name |-> <<>>,
                         seen |-> st.seen], f, a)
           st1 == [st EXCEPT !.asms = p.asms, !.all_insts = p.all_insts,
                             !.name = p.name, !.seen = p.seen]
       IN IF p.all_insts = <<>>
          THEN st1
          ELSE LET c == check_fde(f, p.all_insts, sources, a)
               IN IF c.err.raised /\ ~Caught(c.err)
                  THEN [st1 EXCEPT !.err = c.err, !.escaped = TRUE,
                                   !.stdout = @ \o c.out]
                  ELSE [st1 EXCEPT
                          !.err = c.err,
                          !.stdout = @ \o c.out \o
                            (IF c.err.raised
                             THEN <<ErrorLine(c.err, sources, p.name)>>
                             ELSE <<>>),
                          !.fail = CountError(@, c.err),
                          !.seen = UpdateSeen(@, p.all_insts, c.err)]

\* Uncovered without the subtraction of seen.
Uncovered_All(sources, s) == SortedSeq(DOMAIN sources)

\* sorted(set(srcs.keys()) - seen)
Uncovered(sources, s) == SortedSeq(DOMAIN sources \ s)

\* The lines printed by the loop over the uncovered PCs.
MissingLines(sources, s) ==
  [k \in 1..Len(Uncovered(sources, s)) |->
     [line |-> "missing", pc |-> Uncovered(sources, s)[k],
      src |-> sources[Uncovered(sources, s)[k]]]]

(***************************************************************************)
(* Instruction lists of the checked instances: strictly increasing PCs     *)
(* drawn from 1..MaxInstPc, texts from a few per architecture, targets     *)
(* from one below the lowest address to one above the highest.             *)
(***************************************************************************)
Text(mn, form, n, tgt) == [mn |-> mn, form |-> form, n |-> n, tgt |-> tgt]

InstPcs == 1..MaxInstPc

Targets == 0..(MaxInstPc + 1)

StackTexts(a) ==
  CASE a = "i386" ->
         {Text("pushl", "reg", 0, 0), Text("addl", "imm_sp", 4, 0), Text("nop", "none", 0, 0)}
    [] a = "x86_64" ->
         {Text("pushq", "reg", 0, 0), Text("popq", "reg", 0, 0), Text("nop", "none", 0, 0)}
    [] a = "arm" ->
         {Text("push", "list", 2, 0), Text("vpop", "dlist", 1, 0), Text("nop", "none", 0, 0)}
    [] a = "aarch64" ->
         {Text("stp", "pre", 16, 0), Text("add", "sp_imm", 16, 0), Text("add", "reg_imm", 16, 0)}
    [] a = "riscv64" ->
         {Text("addi", "sp_imm", -16, 0), Text("addi", "sp_imm", 16, 0), Text("ret", "none", 0, 0)}

BranchTexts(a) ==
  CASE a = "i386" ->
         {Text("jmp", "target", 0, t) : t \in Targets}
           \cup {Text("calll", "target", 0, t) : t \in Targets}
    [] a = "x86_64" ->
         {Text("jne", "target", 0, t) : t \in Targets}
           \cup {Text("callq", "target", 0, t) : t \in Targets}
    [] a = "arm" -> {Text("bl", "target", 0, t) : t \in Targets}
    [] a = "aarch64" -> {Text("cbz", "reg_target", 0, t) : t \in Targets}
    [] a = "riscv64" -> {Text("jal", "reg_target", 0, t) : t \in Targets}

Texts(a) == StackTexts(a) \cup BranchTexts(a)

\* The list [pc, inst] with the addresses of S in increasing order and the
\* texts t[1], t[2], ...
InstList(S, t) ==
  LET order == SortedSeq(S)
  IN [k \in 1..Len(order) |-> [pc |-> order[k], inst |-> t[k]]]

\* insts is a list over some addresses of `addrs` with texts of `texts`.
InstsOver(addrs, texts) ==
  \E S \in (SUBSET addrs) \ {{}} :
    \E t \in [1..Cardinality(S) -> texts] : insts = InstList(S, t)

(***************************************************************************)
(* Values of the variables of the functions that a specification does not  *)
(* run.                                                                    *)
(***************************************************************************)
NoFde == [pc |-> 0, end |-> 0, data |-> <<>>]

InferIdle == i = 0 /\ offset = 0 /\ result = EmptyDict

FdeIdle ==
  /\ fde = NoFde
  /\ srcs = EmptyDict
  /\ dwarf_cfa_offsets = EmptyDict
  /\ inferred_cfa_offsets = EmptyDict

NoLib == [arch |-> "", fdes |-> <<>>, asms |-> <<>>, srcs |-> EmptyDict]

LibIdle ==
  /\ lib = NoLib
  /\ fdes = <<>>
  /\ fi = 0
  /\ asms = <<>>
  /\ seen = {}
  /\ fail = 0
  /\ all_insts = <<>>
  /\ name = <<>>

MainIdle ==
  /\ args = [srcs |-> 0, out |-> FALSE]
  /\ libs = <<>>
  /\ li = 0
  /\ status = None
  /\ marker = FALSE

SrcIdle == sections = <<>> /\ si = 0 /\ results = <<>>

TaskIdle == tasks = <<>>

(***************************************************************************)
(* SpecInfer: get_inferred_cfa_offsets run one loop iteration at a time.   *)
(***************************************************************************)
InitInfer ==
  /\ arch \in ArchSet
  /\ InstsOver(InstPcs, Texts(arch))
  /\ i = 1
  /\ offset = INITIAL_OFFSET(arch)
  /\ result = EmptyDict
  /\ err = NoError
  /\ pc = "infer"
  /\ FdeIdle
  /\ LibIdle
  /\ MainIdle
  /\ SrcIdle
  /\ TaskIdle
  /\ stdout = <<>>

InferStep ==
  /\ UNCHANGED <<mainVars, srcVars, taskVars>>
  /\ pc = "infer"
  /\ i <= Len(insts)
  /\ LET st == InferInst([offset |-> offset, result |-> result, err |-> NoError],
                         insts[i], insts[1].pc, insts[Len(insts)].pc, arch)
     IN /\ offset' = st.offset
        /\ result' = st.result
        /\ err' = st.err
        /\ i' = IF st.err.raised THEN i ELSE i + 1
        /\ pc' = IF st.err.raised THEN "raised" ELSE "infer"
  /\ UNCHANGED <<arch, insts, fdeVars, libVars, stdout>>

InferReturn ==
  /\ UNCHANGED <<mainVars, srcVars, taskVars>>
  /\ pc = "infer"
  /\ i > Len(insts)
  /\ pc' = "returned"
  /\ UNCHANGED <<arch, insts, inferVars, fdeVars, libVars, stdout, err>>

NextInfer == InferStep \/ InferReturn

SpecInfer == InitInfer /\ [][NextInfer]_vars

(***************************************************************************)
(* Claims about get_inferred_cfa_offsets (checked under SpecInfer).        *)
(***************************************************************************)
\* The pattern that decides instruction k (0: none matches).
MatchOf(k) == FirstMatch(get_inst_semantics(arch), insts[k].inst)

\* The effect delta of instruction k.
DeltaOf(k) ==
  IF MatchOf(k) = 0 THEN 0
  ELSE adjust_offset(get_inst_semantics(arch)[MatchOf(k)], insts[k].inst, arch)

\* Instruction k is a control transfer of the catalogue.
IsTransfer(k) == MatchOf(k) # 0 /\ get_inst_semantics(arch)[MatchOf(k)].pcadj

\* Instruction k is a control transfer whose target lies inside the function.
IsBranchInRange(k) ==
  /\ IsTransfer(k)
  /\ insts[1].pc <= insts[k].inst.tgt
  /\ insts[k].inst.tgt <= insts[Len(insts)].pc

\* The loop has run the iteration of instruction k (to its end, or to its raise).
Processed(k) == k < i \/ (k = i /\ pc = "raised")

\* The iteration of instruction k raised.
RaisedAt(k) == pc = "raised" /\ i = k

\* The offset a processed control transfer k computes for its target.
ComputedAt(k) == result[insts[k].pc] + DeltaOf(k)

\* h < j are control transfers to the same PC inside the function.
SameTarget(h, j) ==
  /\ h < j
  /\ IsBranchInRange(h)
  /\ IsBranchInRange(j)
  /\ insts[h].inst.tgt = insts[j].inst.tgt

\* No control transfer before h has the target of h.
FirstTo(h) ==
  \A g \in 1..(h - 1) : ~(IsBranchInRange(g) /\ insts[g].inst.tgt = insts[h].inst.tgt)

\* Sum of the effect deltas of instructions 1..k.
RECURSIVE SumDeltas(_)
SumDeltas(k) == IF k = 0 THEN 0 ELSE SumDeltas(k - 1) + DeltaOf(k)

NoTransfer == \A k \in 1..Len(insts) : ~IsTransfer(k)

\* C2 as stated: of two control transfers to the same in-range PC, the earlier
\* one (the first with that target) never raises, and the later one raises,
\* with its own PC as the address, exactly when the two computed offsets differ.
C2_Stated ==
  \A h \in 1..Len(insts) : \A j \in 1..Len(insts) :
    (SameTarget(h, j) /\ FirstTo(h)) =>
      /\ ~RaisedAt(h)
      /\ Processed(j) =>
           /\ (ComputedAt(h) = ComputedAt(j)) <=> ~RaisedAt(j)
           /\ RaisedAt(j) => (err.raised /\ err.address = insts[j].pc)

\* C2 amended: of two control transfers to the same in-range PC, once the loop
\* has reached the later one (so the earlier one did not raise), the later one
\* raises exactly when its computed offset differs from the earlier one's, and
\* the Error's address is the later instruction's PC.
C2_BranchConvergence ==
  \A h \in 1..Len(insts) : \A j \in 1..Len(insts) :
    (SameTarget(h, j) /\ Processed(j)) =>
      /\ (ComputedAt(h) = ComputedAt(j)) <=> ~RaisedAt(j)
      /\ RaisedAt(j) =>
           /\ err.raised
           /\ err.address = insts[j].pc
           /\ err.address # insts[h].pc

\* C2 witness: the later of two transfers to one forward target raised, the
\* target being neither of the two instructions.
C2_Witness ==
  \E h \in 1..Len(insts) : \E j \in 1..Len(insts) :
    /\ SameTarget(h, j)
    /\ RaisedAt(j)
    /\ ComputedAt(h) # ComputedAt(j)
    /\ insts[j].inst.tgt > insts[j].pc

\* C7 as stated: without control transfers, the offset recorded at the final
\* instruction is the initial offset plus the deltas of all instructions.
C7_Stated ==
  (pc = "returned" /\ NoTransfer) =>
    result[insts[Len(insts)].pc] = INITIAL_OFFSET(arch) + SumDeltas(Len(insts))

\* C7 amended: without control transfers, the offset recorded at the final
\* instruction is the initial offset plus the deltas of the instructions before
\* the final one, in order; the final instruction's own delta is not included.
C7_FinalOffset ==
  (pc = "returned" /\ NoTransfer) =>
    result[insts[Len(insts)].pc] = INITIAL_OFFSET(arch) + SumDeltas(Len(insts) - 1)

\* C7 witness: a returned pass over three instructions without control
\* transfer, the first two and the last with a non-zero delta.
C7_Witness ==
  /\ pc = "returned"
  /\ NoTransfer
  /\ Len(insts) = 3
  /\ DeltaOf(1) # 0
  /\ DeltaOf(2) # 0
  /\ DeltaOf(3) # 0
  /\ SumDeltas(2) # 0

\* The loop is about to run the iteration of instruction i.
AtInst == pc = "infer" /\ i <= Len(insts)

\* The catalogue entries whose pattern matches the whole text of instruction k.
HitsOf(k) ==
  LET sem == get_inst_semantics(arch)
  IN {e \in 1..Len(sem) :
        insts[k].inst.mn \in sem[e].mns /\ insts[k].inst.form \in sem[e].forms}

\* The earliest of them in registration order.
EntryOf(k) ==
  LET hits == HitsOf(k)
  IN get_inst_semantics(arch)[CHOOSE e \in hits : \A h \in hits : e <= h]

\* Instruction k matches an entry, and the earliest one names a target.
TransferAt(k) == HitsOf(k) # {} /\ EntryOf(k).pcadj

\* The delta of the earliest entry that instruction k matches.
EntryDelta(k) == adjust_offset(EntryOf(k), insts[k].inst, arch)

\* The target of instruction k lies inside the function.
TargetInside(k) ==
  insts[1].pc <= insts[k].inst.tgt /\ insts[k].inst.tgt <= insts[Len(insts)].pc

\* The offset in force at instruction i: the one recorded for its PC, or the
\* one carried over from the instruction before.
InForce == IF insts[i].pc \in DOMAIN result THEN result[insts[i].pc] ELSE offset

\* The step changes no recorded offset.
Kept == \A p \in DOMAIN result : p \in DOMAIN result' /\ result'[p] = result[p]

\* The step records at most the PC of instruction i.
OnlyOwn == DOMAIN result' = DOMAIN result \cup {insts[i].pc}

\* Instruction k is a call of x86.
IsX86Call(k) == arch \in {"i386", "x86_64"} /\ insts[k].inst.mn \in {"calll", "callq"}

\* No control transfer of the function has the PC of instruction k as target.
NotTargeted(k) ==
  \A h \in 1..Len(insts) : ~(TransferAt(h) /\ insts[h].inst.tgt = insts[k].pc)

\* C14: a control transfer whose target is below the first or above the last
\* instruction of the function raises no Error, records nothing but the
\* offset of its own PC and leaves the running offset as it is.
C14_OutOfRangeIgnored ==
  [][(AtInst /\ TransferAt(i) /\ ~TargetInside(i)) =>
       /\ pc' = "infer"
       /\ err' = NoError
       /\ Kept
       /\ OnlyOwn
       /\ result'[insts[i].pc] = InForce
       /\ offset' = InForce]_vars

\* C14 witness: a returned pass with a transfer to a PC below the function
\* and a transfer to a PC above it.
C14_Witness ==
  /\ pc = "returned"
  /\ \E k \in 1..Len(insts) : TransferAt(k) /\ insts[k].inst.tgt < insts[1].pc
  /\ \E k \in 1..Len(insts) : TransferAt(k) /\ insts[k].inst.tgt > insts[Len(insts)].pc
  /\ DOMAIN result = {insts[k].pc : k \in 1..Len(insts)}

\* C15 as stated: a control transfer to a PC inside the function at or before
\* its own PC changes no recorded offset and raises no Error.
C15_Stated ==
  [][(AtInst /\ TransferAt(i) /\ TargetInside(i) /\ insts[i].inst.tgt <= insts[i].pc) =>
       /\ pc' = "infer"
       /\ err' = NoError
       /\ Kept]_vars

\* C15 amended: a control transfer to an instruction of the function at or
\* before its own PC is checked like a forward one: when the offset recorded
\* at the target differs from the one the transfer computes, an Error is
\* raised with the PC of the transfer as address; when they are equal no
\* recorded offset changes.
C15_BackwardEdgeChecked ==
  [][(/\ AtInst
      /\ TransferAt(i)
      /\ insts[i].inst.tgt \in {insts[k].pc : k \in 1..i}) =>
       LET old == IF insts[i].inst.tgt = insts[i].pc THEN InForce
                  ELSE result[insts[i].inst.tgt]
           new == InForce + EntryDelta(i)
       IN IF old # new
          THEN /\ pc' = "raised"
               /\ i' = i
               /\ err' = [raised |-> TRUE, address |-> insts[i].pc,
                          message |-> <<"Inconsistent branch", old, new>>]
          ELSE /\ pc' = "infer"
               /\ err' = NoError
               /\ Kept
               /\ OnlyOwn]_vars

\* C15 witness: a transfer to an earlier instruction of the function raised.
C15_Witness ==
  /\ pc = "raised"
  /\ i > 1
  /\ TransferAt(i)
  /\ insts[i].inst.tgt \in {insts[k].pc : k \in 1..(i - 1)}
  /\ err.address = insts[i].pc

\* C16: when the pass reaches a PC that already has a recorded offset, that
\* value stays recorded for the PC and is the running offset of the
\* instruction (its own delta is added to it, not to the value carried
\* over); the difference between the two raises no Error: only a transfer of
\* the instruction itself can raise, for its own target.
C16_RecordedAdopted ==
  [][(AtInst /\ insts[i].pc \in DOMAIN result) =>
       /\ result'[insts[i].pc] = result[insts[i].pc]
       /\ pc' = "infer" =>
            offset' = result[insts[i].pc]
                        + (IF HitsOf(i) # {} /\ ~EntryOf(i).pcadj THEN EntryDelta(i) ELSE 0)
       /\ ~(TransferAt(i) /\ TargetInside(i)) => (pc' = "infer" /\ err' = NoError)
       /\ pc' = "raised" =>
            /\ err'.address = insts[i].pc
            /\ err'.message = <<"Inconsistent branch", result[insts[i].inst.tgt],
                                result[insts[i].pc] + EntryDelta(i)>>]_vars

\* C16 witness: a returned pass with an instruction whose recorded offset,
\* set by an earlier transfer, differs from the value carried over from the
\* instruction before it.
C16_Witness ==
  /\ pc = "returned"
  /\ \E k \in 2..Len(insts) : \E h \in 1..(k - 1) :
       /\ TransferAt(h)
       /\ insts[h].inst.tgt = insts[k].pc
       /\ result[insts[k].pc] #
            result[insts[k - 1].pc]
              + (IF HitsOf(k - 1) # {} /\ ~EntryOf(k - 1).pcadj THEN EntryDelta(k - 1) ELSE 0)

\* C17: a control transfer to a PC inside the function that has no recorded
\* offset records there the offset in force at the transfer, plus the pointer
\* size (4 on i386, 8 on x86_64) when it is an x86 call, and raises no Error.
C17_TargetOffset ==
  [][(/\ AtInst
      /\ TransferAt(i)
      /\ TargetInside(i)
      /\ insts[i].inst.tgt \notin DOMAIN result
      /\ insts[i].inst.tgt # insts[i].pc) =>
       /\ pc' = "infer"
       /\ err' = NoError
       /\ result'[insts[i].inst.tgt] =
            InForce + (IF IsX86Call(i) THEN (IF arch = "i386" THEN 4 ELSE 8) ELSE 0)]_vars

\* C17 witness: a returned pass with an x86 call whose forward target got
\* the offset of the call plus the pointer size.
C17_Witness ==
  /\ pc = "returned"
  /\ \E k \in 1..Len(insts) :
       /\ IsX86Call(k)
       /\ FirstTo(k)
       /\ insts[k].inst.tgt > insts[k].pc
       /\ insts[k].inst.tgt \in DOMAIN result
       /\ result[insts[k].inst.tgt] = result[insts[k].pc] + ptr_size(arch)

\* C18 as stated: the delta of the first matching entry is added to the
\* running offset carried to the next instruction, for every kind of entry.
C18_Stated ==
  [][(AtInst /\ HitsOf(i) # {} /\ pc' = "infer") =>
       offset' = InForce + EntryDelta(i)]_vars

\* C18 amended: the delta of the first matching entry is added to the running
\* offset carried to the next instruction when the entry names no target; for
\* a control transfer, the x86 call with its delta of the pointer size
\* included, the running offset is carried on unchanged and the delta goes
\* only into the offset recorded at the target.
C18_DeltaCarried ==
  [][(AtInst /\ HitsOf(i) # {} /\ pc' = "infer") =>
       offset' = InForce + (IF EntryOf(i).pcadj THEN 0 ELSE EntryDelta(i))]_vars

\* C18 witness: a returned pass with an x86 call followed by an instruction
\* that no transfer targets and that has the offset of the call, and with an
\* instruction of non-zero delta.
C18_Witness ==
  /\ pc = "returned"
  /\ \E k \in 1..(Len(insts) - 1) :
       /\ IsX86Call(k)
       /\ NotTargeted(k + 1)
       /\ result[insts[k + 1].pc] = result[insts[k].pc]
  /\ \E k \in 1..(Len(insts) - 1) :
       /\ HitsOf(k) # {}
       /\ ~EntryOf(k).pcadj
       /\ EntryDelta(k) # 0
       /\ NotTargeted(k + 1)
       /\ result[insts[k + 1].pc] = result[insts[k].pc] + EntryDelta(k)

\* C19: an instruction takes the effect of the earliest entry that matches
\* its whole text and of no other; one that matches no entry raises no Error,
\* leaves the running offset as it is and changes no recorded offset.
C19_FirstMatchOnly ==
  [][AtInst =>
       /\ HitsOf(i) = {} =>
            /\ pc' = "infer"
            /\ err' = NoError
            /\ offset' = InForce
            /\ Kept
            /\ OnlyOwn
       /\ (HitsOf(i) # {} /\ pc' = "infer") =>
            /\ offset' = InForce + (IF EntryOf(i).pcadj THEN 0 ELSE EntryDelta(i))
            /\ \A p \in DOMAIN result' \ {insts[i].pc} :
                 \/ p \in DOMAIN result /\ result'[p] = result[p]
                 \/ /\ EntryOf(i).pcadj
                    /\ p = insts[i].inst.tgt
                    /\ result'[p] = InForce + EntryDelta(i)]_vars

\* C19 witness: a returned pass on arm with a vpop of one register, matched
\* by two entries, that lowered the offset by 8, and with an instruction that
\* matches no entry.
C19_Witness ==
  /\ pc = "returned"
  /\ arch = "arm"
  /\ \E k \in 1..(Len(insts) - 1) :
       /\ insts[k].inst.mn = "vpop"
       /\ Cardinality(HitsOf(k)) = 2
       /\ NotTargeted(k + 1)
       /\ result[insts[k + 1].pc] = result[insts[k].pc] - 8
  /\ \E k \in 1..Len(insts) : HitsOf(k) = {}

\* The sum of the deltas of the earliest matching entries of instructions 1..k.
RECURSIVE DeltasUpTo(_)
DeltasUpTo(k) ==
  IF k = 0 THEN 0
  ELSE DeltasUpTo(k - 1) + (IF HitsOf(k) = {} THEN 0 ELSE EntryDelta(k))

\* C25: without control transfers, the offset recorded at each instruction
\* is the initial offset of the architecture plus the deltas of the
\* instructions strictly before it; the first instruction records the
\* initial offset.
C25_PrefixSum ==
  (\A k \in 1..Len(insts) : ~TransferAt(k)) =>
    \A k \in 1..Len(insts) :
      (k < i \/ pc = "returned") =>
        /\ insts[k].pc \in DOMAIN result
        /\ result[insts[k].pc] =
             (IF arch = "i386" THEN 4 ELSE IF arch = "x86_64" THEN 8 ELSE 0)
               + DeltasUpTo(k - 1)

\* C25 witness: a returned pass over three instructions without control
\* transfer, all three of non-zero delta, with three different offsets.
C25_Witness ==
  /\ pc = "returned"
  /\ Len(insts) = 3
  /\ \A k \in 1..3 : HitsOf(k) # {} /\ ~EntryOf(k).pcadj /\ EntryDelta(k) # 0
  /\ result[insts[1].pc] # result[insts[2].pc]
  /\ result[insts[2].pc] # result[insts[3].pc]
  /\ result[insts[1].pc] # result[insts[3].pc]

\* C28: the offset map is write-once during a pass: a step never changes the
\* value recorded at a PC, and a transfer that computes for its target a
\* value other than the recorded one raises, the map keeping the old value.
C28_WriteOnce ==
  [][/\ Kept
     /\ (/\ AtInst
         /\ TransferAt(i)
         /\ TargetInside(i)
         /\ insts[i].inst.tgt \in DOMAIN result
         /\ result[insts[i].inst.tgt] # InForce + EntryDelta(i)) =>
          /\ pc' = "raised"
          /\ err'.raised
          /\ result'[insts[i].inst.tgt] = result[insts[i].inst.tgt]]_vars

\* C28 witness: a transfer raised at a target that an earlier transfer, not
\* a visit, had recorded with another value; the target keeps the old value.
C28_Witness ==
  /\ pc = "raised"
  /\ TransferAt(i)
  /\ insts[i].inst.tgt > insts[i].pc
  /\ insts[i].inst.tgt \in DOMAIN result
  /\ result[insts[i].inst.tgt] # result[insts[i].pc] + EntryDelta(i)

(***************************************************************************)
(* SpecFde: check_fde on one function.  Every address of 1..MaxFdeAddr     *)
(* holds an instruction or none, a CFA row or none, and a source line or   *)
(* none; the rows of the dump are in address order.                        *)
(***************************************************************************)
FdeAddrs == 1..MaxFdeAddr

\* An instruction that lowers the stack pointer, and by how much.
PushText(a) ==
  CASE a = "i386" -> Text("pushl", "reg", 0, 0)
    [] a = "x86_64" -> Text("pushq", "reg", 0, 0)
    [] a = "arm" -> Text("push", "list", 2, 0)
    [] a = "aarch64" -> Text("stp", "pre", 16, 0)
    [] a = "riscv64" -> Text("addi", "sp_imm", -16, 0)

PushDelta(a) ==
  CASE a = "i386" -> 4
    [] a = "x86_64" -> 8
    [] a = "arm" -> 8
    [] a = "aarch64" -> 16
    [] a = "riscv64" -> 16

\* An instruction without effect on the stack pointer.
PlainText(a) ==
  IF a \in {"i386", "x86_64"} THEN Text("movl", "reg", 0, 0) ELSE Text("mov", "reg", 0, 0)

\* A jump to address t.
JumpText(a, t) ==
  CASE a \in {"i386", "x86_64"} -> Text("jmp", "target", 0, t)
    [] a \in {"arm", "aarch64"} -> Text("b", "target", 0, t)
    [] a = "riscv64" -> Text("j", "target", 0, t)

FdeTexts(a) == {PushText(a), PlainText(a), JumpText(a, 1)}

\* The text after the register name of a row that declares offset v.
OffsetText(v) == IF v = 0 THEN <<>> ELSE <<v>>

\* The rows a dump may hold at address p: the CFA is the stack pointer plus
\* the initial offset ("lo"), plus the offset after one push ("hi"), or is
\* given by an expression ("expr").
RowKinds == {"lo", "hi", "expr"}

RowAt(a, p, kind) ==
  CASE kind = "lo" -> Rule(p, SP(a), OffsetText(INITIAL_OFFSET(a)))
    [] kind = "hi" -> Rule(p, SP(a), OffsetText(INITIAL_OFFSET(a) + PushDelta(a)))
    [] kind = "expr" -> Rule(p, "DW_OP_breg", <<>>)

RowsAt(a, p) == {RowAt(a, p, kind) : kind \in RowKinds}

SrcLine(p) == <<"quick_entrypoints.S", p>>

SrcDict(S) == [p \in S |-> SrcLine(p)]

\* The rows r[1], r[2], ... of a dump, one for each address of S.
RowList(S, r) == [k \in 1..Cardinality(S) |-> r[k]]

\* The row lists with one row or none at each address of `addrs`.
RowListsOver(addrs, a) ==
  UNION {
    LET order == SortedSeq(S)
    IN {RowList(S, r)
          : r \in {g \in [1..Len(order) -> UNION {RowsAt(a, p) : p \in addrs}] :
                     \A k \in 1..Len(order) : g[k].pc = order[k]}}
    : S \in SUBSET addrs }

InitFde ==
  /\ arch \in ArchSet
  /\ InstsOver(FdeAddrs, FdeTexts(arch))
  /\ \E data \in RowListsOver(FdeAddrs, arch) :
       fde = [pc |-> insts[1].pc, end |-> insts[Len(insts)].pc + 1, data |-> data]
  /\ \E S \in SUBSET FdeAddrs : srcs = SrcDict(S)
  /\ dwarf_cfa_offsets = EmptyDict
  /\ inferred_cfa_offsets = EmptyDict
  /\ InferIdle
  /\ LibIdle
  /\ MainIdle
  /\ SrcIdle
  /\ TaskIdle
  /\ stdout = <<>>
  /\ err = NoError
  /\ pc = "check_fde"

\* dwarf_cfa_offsets = get_dwarf_cfa_offsets(insts, fde)
FdeDwarf ==
  /\ UNCHANGED <<mainVars, srcVars, taskVars>>
  /\ pc = "check_fde"
  /\ LET d == get_dwarf_cfa_offsets(insts, fde, arch)
     IN /\ dwarf_cfa_offsets' = d.result
        /\ err' = d.err
        /\ pc' = IF d.err.raised THEN "raised" ELSE "dwarf_done"
  /\ UNCHANGED <<arch, insts, inferVars, fde, srcs, inferred_cfa_offsets, libVars, stdout>>

\* inferred_cfa_offsets = get_inferred_cfa_offsets(insts)
FdeInferred ==
  /\ UNCHANGED <<mainVars, srcVars, taskVars>>
  /\ pc = "dwarf_done"
  /\ LET inf == get_inferred_cfa_offsets(insts, arch)
     IN /\ inferred_cfa_offsets' = (IF inf.err.raised THEN EmptyDict ELSE inf.result)
        /\ err' = inf.err
        /\ pc' = IF inf.err.raised THEN "raised" ELSE "inferred_done"
  /\ UNCHANGED <<arch, insts, inferVars, fde, srcs, dwarf_cfa_offsets, libVars, stdout>>

\* A comparison that removes the source line of the PC it reports.
FdeCompare_Consuming ==
  /\ UNCHANGED <<mainVars, srcVars, taskVars>>
  /\ pc = "inferred_done"
  /\ LET c == Compare(insts, dwarf_cfa_offsets, inferred_cfa_offsets, srcs)
     IN /\ err' = c.err
        /\ stdout' = stdout \o c.out
        /\ pc' = IF c.err.raised THEN "raised" ELSE "returned"
        /\ srcs' = IF c.err.raised
                   THEN [p \in DOMAIN srcs \ {c.err.address} |-> srcs[p]]
                   ELSE srcs
  /\ UNCHANGED <<arch, insts, inferVars, fde, dwarf_cfa_offsets, inferred_cfa_offsets,
                 libVars>>

\* for pc, inst in insts: ... raise Error(pc, ...)
FdeCompare ==
  /\ UNCHANGED <<mainVars, srcVars, taskVars>>
  /\ pc = "inferred_done"
  /\ LET c == Compare(insts, dwarf_cfa_offsets, inferred_cfa_offsets, srcs)
     IN /\ err' = c.err
        /\ stdout' = stdout \o c.out
        /\ pc' = IF c.err.raised THEN "raised" ELSE "returned"
  /\ UNCHANGED <<arch, insts, inferVars, fdeVars, libVars>>

NextFde == FdeDwarf \/ FdeInferred \/ FdeCompare

SpecFde == InitFde /\ [][NextFde]_vars

(***************************************************************************)
(* Claims about check_fde (checked under SpecFde).                         *)
(***************************************************************************)
MismatchMessage == <<"DWARF offset does not match inferred offset">>

\* check_fde raised the Error of its comparison loop.
MismatchRaised == pc = "raised" /\ err.raised /\ err.message = MismatchMessage

\* The comparison loop of check_fde has run (to its end or to its raise).
Compared == pc = "returned" \/ MismatchRaised

\* Instruction k has an integer declared offset that is not the inferred one.
DeclaredDiffers(k) ==
  /\ Len(dwarf_cfa_offsets[insts[k].pc]) = 1
  /\ dwarf_cfa_offsets[insts[k].pc][1] # inferred_cfa_offsets[insts[k].pc]

\* The instructions with a differing declared offset and a source line.
Mismatching == {k \in 1..Len(insts) : DeclaredDiffers(k) /\ insts[k].pc \in DOMAIN srcs}

\* C1: no mismatch Error is raised at an instruction PC whose declared offset
\* is None, whatever the inferred offset there and whether or not the PC has a
\* source line.
C1_NoneNeverMismatch ==
  Compared =>
    \A k \in 1..Len(insts) :
      dwarf_cfa_offsets[insts[k].pc] = None =>
        ~(MismatchRaised /\ err.address = insts[k].pc)

\* C1 witness: the comparison passed an instruction with a source line whose
\* declared offset is None and raised at a later instruction.
C1_Witness ==
  /\ MismatchRaised
  /\ \E k \in 1..Len(insts) :
       /\ dwarf_cfa_offsets[insts[k].pc] = None
       /\ insts[k].pc \in DOMAIN srcs
       /\ insts[k].pc < err.address

\* C3: the comparison raises exactly when some instruction has an integer
\* declared offset that differs from the inferred one at a PC that is a key of
\* srcs; the address is the first such PC; differing PCs without source line
\* before it do not stop the scan.
C3_MismatchIff ==
  /\ pc = "returned" => Mismatching = {}
  /\ MismatchRaised =>
       /\ Mismatching # {}
       /\ \E k \in Mismatching :
            /\ err.address = insts[k].pc
            /\ \A h \in Mismatching : k <= h
  /\ (pc = "raised" /\ inferred_cfa_offsets # EmptyDict) => MismatchRaised

\* C3 witness: the comparison raised at the second instruction after an
\* instruction whose declared offset differs but which has no source line.
C3_Witness ==
  /\ MismatchRaised
  /\ \E k \in 1..Len(insts) :
       /\ DeclaredDiffers(k)
       /\ insts[k].pc \notin DOMAIN srcs
       /\ insts[k].pc < err.address

\* The value of the row: the integer after the stack pointer register (0
\* when the text is empty), None for any other row.
RowValue(row) ==
  IF row.reg = SP(arch)
  THEN (IF row.o = <<>> THEN <<0>> ELSE <<row.o[1]>>)
  ELSE <<>>

\* Some row of the FDE has the form stack pointer register [+ integer].
HasTrivialRow == \E k \in 1..Len(fde.data) : fde.data[k].reg = SP(arch)

\* get_dwarf_cfa_offsets raised its Error.
NoTrivialRaised ==
  /\ pc = "raised"
  /\ err.raised
  /\ err.message = <<"No trivial CFA offsets. Add function to IGNORE list?">>

\* C12: get_dwarf_cfa_offsets raises, with the PC of the first instruction as
\* address, exactly when no row of the FDE is trivial (an FDE without rows
\* included); otherwise it returns a map over the PCs of the instructions.
C12_NoTrivialIff ==
  pc # "check_fde" =>
    /\ NoTrivialRaised <=> ~HasTrivialRow
    /\ NoTrivialRaised => (err.address = insts[1].pc /\ dwarf_cfa_offsets = EmptyDict)
    /\ HasTrivialRow =>
         DOMAIN dwarf_cfa_offsets = {insts[k].pc : k \in 1..Len(insts)}

\* C12 witness: get_dwarf_cfa_offsets raised for an FDE without any row.
C12_Witness ==
  /\ NoTrivialRaised
  /\ fde.data = <<>>
  /\ Len(insts) >= 2

\* The rows of the FDE at or below address p.
RowsUpTo(p) == {j \in 1..Len(fde.data) : fde.data[j].pc <= p}

\* C13: for rows in non-decreasing PC order, the declared offset of every
\* instruction is the value of the last row at or below its PC, and the
\* initial offset of the architecture when there is none.
C13_LastRuleWins ==
  (/\ pc \in {"dwarf_done", "inferred_done", "returned"}
   /\ \A j \in 1..Len(fde.data) : \A h \in 1..Len(fde.data) :
        j < h => fde.data[j].pc <= fde.data[h].pc) =>
    \A k \in 1..Len(insts) :
      dwarf_cfa_offsets[insts[k].pc] =
        IF RowsUpTo(insts[k].pc) = {}
        THEN <<IF arch = "i386" THEN 4 ELSE IF arch = "x86_64" THEN 8 ELSE 0>>
        ELSE RowValue(fde.data[CHOOSE j \in RowsUpTo(insts[k].pc) :
                                 \A h \in RowsUpTo(insts[k].pc) : h <= j])

\* C13 witness: a map returned for a function with an instruction below every
\* row and an instruction that takes the value of the one row at or below it,
\* an integer other than the initial offset.
C13_Witness ==
  /\ pc = "dwarf_done"
  /\ \E k \in 1..Len(insts) : RowsUpTo(insts[k].pc) = {}
  /\ \E k \in 1..Len(insts) :
       /\ Cardinality(RowsUpTo(insts[k].pc)) = 1
       /\ dwarf_cfa_offsets[insts[k].pc] # <<>>
       /\ dwarf_cfa_offsets[insts[k].pc] # <<INITIAL_OFFSET(arch)>>

\* The first instruction, in list order, whose declared offset is an integer
\* other than the inferred one and whose PC has a source line, in the maps d,
\* inf and sources; 0 when there is none.
FirstReport(d, inf, sources) ==
  LET hits == {k \in 1..Len(insts) :
                 /\ d[insts[k].pc] # <<>>
                 /\ d[insts[k].pc] # <<inf[insts[k].pc]>>
                 /\ insts[k].pc \in DOMAIN sources}
  IN IF hits = {} THEN 0 ELSE CHOOSE k \in hits : \A h \in hits : k <= h

\* C24: the comparison of check_fde changes neither offset map nor the
\* source-line map, so that a second run on the maps it leaves behind ends as
\* the first did: with the same Error address and message, or without Error.
C24_CompareTwice ==
  [][pc = "inferred_done" =>
       /\ dwarf_cfa_offsets' = dwarf_cfa_offsets
       /\ inferred_cfa_offsets' = inferred_cfa_offsets
       /\ srcs' = srcs
       /\ insts' = insts
       /\ LET first == FirstReport(dwarf_cfa_offsets, inferred_cfa_offsets, srcs)
              again == FirstReport(dwarf_cfa_offsets', inferred_cfa_offsets', srcs')
          IN /\ again = first
             /\ err'.raised <=> again # 0
             /\ err'.raised =>
                  /\ err'.address = insts[again].pc
                  /\ err'.message = <<"DWARF offset does not match inferred offset">>]_vars

\* C24 witness: the comparison raised at the second instruction of a
\* function whose two instructions have source lines.
C24_Witness ==
  /\ MismatchRaised
  /\ Len(insts) = 2
  /\ err.address = insts[2].pc
  /\ {insts[1].pc, insts[2].pc} \subseteq DOMAIN srcs

\* C26: when both offset functions have returned for the instruction list,
\* every instruction PC is a key of the declared and of the inferred map.
C26_KeysPresent ==
  (pc \in {"inferred_done", "returned"} \/ MismatchRaised) =>
    /\ Len(insts) >= 1
    /\ \A k \in 1..Len(insts) :
         /\ insts[k].pc \in DOMAIN dwarf_cfa_offsets
         /\ insts[k].pc \in DOMAIN inferred_cfa_offsets

\* C26 witness: both maps returned for a function of two instructions, the
\* first of them a jump to itself.
C26_Witness ==
  /\ pc = "inferred_done"
  /\ Len(insts) = 2
  /\ insts[1].inst.tgt = insts[1].pc
  /\ insts[1].inst.form = "target"

(***************************************************************************)
(* SpecLib: check_lib on one library, one FDE of the for loop at a time.   *)
(* Every address of 1..MaxLibAddr starts a block of one instruction or     *)
(* none, starts an FDE, continues the FDE of the address before or lies in *)
(* no FDE, and has a source line or none.  The FDE ranges do not overlap   *)
(* and all three lists are sorted by address.                              *)
(***************************************************************************)
LibAddrs == 1..MaxLibAddr

LibArches == {"i386", "aarch64"}

\* Symbol names: one that IGNORE lists for i386 only and, on i386, one that it
\* does not list.
LibNames(a) ==
  IF a = "i386"
  THEN {<<"art_quick_osr_stub", "_from_code">>, <<"art_quick_resolution_trampoline">>}
  ELSE {<<"art_quick_osr_stub", "_from_code">>}

\* A call on x86 (it raises "Inconsistent branch" when it targets a PC that
\* has an offset already), a jump elsewhere.
TransferText(a, t) ==
  CASE a = "i386" -> Text("calll", "target", 0, t)
    [] a = "x86_64" -> Text("callq", "target", 0, t)
    [] OTHER -> JumpText(a, t)

\* The instructions of the blocks: a push, an instruction outside the
\* catalogue and, on i386, a call of the first address.
LibTexts(a) ==
  IF a = "i386"
  THEN {PushText(a), PlainText(a), TransferText(a, 1)}
  ELSE {PushText(a), PlainText(a)}

\* What an address holds: block is <<>> or <<name, text>>; fde is <<"gap">>,
\* <<"cont">> or <<"start", the kind of the row of the FDE>>; src tells whether
\* the line table has a row for the address.
AddrOptions(a) ==
  [block : {<<>>} \cup {<<n, t>> : n \in LibNames(a), t \in LibTexts(a)},
   fde : {<<"gap">>, <<"cont">>} \cup {<<"start", kind>> : kind \in RowKinds},
   src : BOOLEAN]

\* The end of the FDE that starts at p: the next address that does not continue it.
RECURSIVE FdeEnd(_, _)
FdeEnd(layout, p) ==
  IF p + 1 \in DOMAIN layout /\ layout[p + 1].fde = <<"cont">>
  THEN FdeEnd(layout, p + 1)
  ELSE p + 1

\* The dumps of the library laid out by `layout`.
LibOf(layout, a) ==
  LET starts == SortedSeq({p \in DOMAIN layout : layout[p].fde[1] = "start"})
      blocks == SortedSeq({p \in DOMAIN layout : layout[p].block # <<>>})
  IN [arch |-> a,
      fdes |-> [k \in 1..Len(starts) |->
                  [pc |-> starts[k], end |-> FdeEnd(layout, starts[k]),
                   data |-> <<RowAt(a, starts[k], layout[starts[k]].fde[2])>>]],
      asms |-> [k \in 1..Len(blocks) |->
                  [pc |-> blocks[k], name |-> layout[blocks[k]].block[1],
                   data |-> <<[pc |-> blocks[k], inst |-> layout[blocks[k]].block[2]]>>]],
      srcs |-> SrcDict({p \in DOMAIN layout : layout[p].src})]

\* A well-formed layout over `addrs`: the FDE continued at p exists.
Layouts(a, addrs) ==
  {layout \in [addrs -> AddrOptions(a)] :
     \A p \in addrs :
       layout[p].fde = <<"cont">> => (p - 1 \in addrs /\ layout[p - 1].fde # <<"gap">>)}

InitLib ==
  /\ \E a \in LibArches : \E layout \in Layouts(a, LibAddrs) : lib = LibOf(layout, a)
  /\ arch = ""
  /\ insts = <<>>
  /\ InferIdle
  /\ FdeIdle
  /\ MainIdle
  /\ SrcIdle
  /\ TaskIdle
  /\ fdes = <<>>
  /\ fi = 0
  /\ asms = <<>>
  /\ seen = {}
  /\ fail = 0
  /\ all_insts = <<>>
  /\ name = <<>>
  /\ stdout = <<>>
  /\ err = NoError
  /\ pc = "check_lib"

\* An `assert srcs` that always passes.
HasSources_Always(sources) == TRUE

\* assert srcs, "No sources found"
HasSources(sources) == DOMAIN sources # {}

\* Lines 251-260: arch, fdes, asms, srcs, seen, fail and `assert srcs`.
LibEnter ==
  /\ UNCHANGED <<mainVars, srcVars, taskVars>>
  /\ pc = "check_lib"
  /\ arch' = lib.arch
  /\ fdes' = lib.fdes
  /\ asms' = lib.asms
  /\ srcs' = lib.srcs
  /\ seen' = {}
  /\ fail' = 0
  /\ fi' = 1
  /\ pc' = IF HasSources(lib.srcs) THEN "fde_loop" ELSE "lib_aborted"
  /\ UNCHANGED <<insts, inferVars, fde, dwarf_cfa_offsets, inferred_cfa_offsets,
                 lib, all_insts, name, stdout, err>>

\* One iteration of `for fde in fdes`.
LibFde ==
  /\ UNCHANGED <<mainVars, srcVars, taskVars>>
  /\ pc = "fde_loop"
  /\ fi <= Len(fdes)
  /\ LET st == FdeIteration([asms |-> asms, seen |-> seen, fail |-> fail,
                             all_insts |-> all_insts, name |-> name,
                             stdout |-> stdout, err |-> NoError, escaped |-> FALSE],
                            fdes[fi], srcs, arch)
     IN /\ asms' = st.asms
        /\ seen' = st.seen
        /\ fail' = st.fail
        /\ all_insts' = st.all_insts
        /\ name' = st.name
        /\ stdout' = st.stdout
        /\ err' = st.err
        /\ pc' = IF st.escaped THEN "lib_raised" ELSE "fde_loop"
  /\ fde' = fdes[fi]
  /\ fi' = fi + 1
  /\ UNCHANGED <<arch, insts, inferVars, srcs, dwarf_cfa_offsets, inferred_cfa_offsets,
                 lib, fdes>>

\* The loop over the uncovered PCs and `return fail`.
LibEpilogue ==
  /\ UNCHANGED <<mainVars, srcVars, taskVars>>
  /\ pc = "fde_loop"
  /\ fi > Len(fdes)
  /\ stdout' = stdout \o MissingLines(srcs, seen)
  /\ fail' = fail + Len(Uncovered(srcs, seen))
  /\ pc' = "lib_returned"
  /\ UNCHANGED <<arch, insts, inferVars, fdeVars, lib, fdes, fi, asms, seen,
                 all_insts, name, err>>

NextLib == LibEnter \/ LibFde \/ LibEpilogue

SpecLib == InitLib /\ [][NextLib]_vars

(***************************************************************************)
(* Claims about check_lib (checked under SpecLib).                         *)
(***************************************************************************)
\* The printed lines of one kind.
LinesOf(kind) == {k \in 1..Len(stdout) : stdout[k].line = kind}

\* The FDEs and blocks of the library under check.
LibFdes == {lib.fdes[k] : k \in 1..Len(lib.fdes)}

LibAsms == {lib.asms[k] : k \in 1..Len(lib.asms)}

\* The FDE starts at a PC of the line table.
HandWritten(f) == f.pc \in DOMAIN lib.srcs

\* The block starts inside the FDE.
Inside(b, f) == f.pc <= b.pc /\ b.pc < f.end

\* The block's name starts with an IGNORE key that lists the architecture.
OnIgnoreList(b) ==
  \E k \in 1..Len(IGNORE) :
    /\ lib.arch \in IGNORE[k].arches
    /\ Len(IGNORE[k].key) <= Len(b.name)
    /\ \A n \in 1..Len(IGNORE[k].key) : b.name[n] = IGNORE[k].key[n]

BlockPcs(b) == {b.data[k].pc : k \in 1..Len(b.data)}

\* The instructions of the blocks inside f that are not on the ignore list,
\* in address order.
RECURSIVE CheckedInsts(_, _)
CheckedInsts(f, k) ==
  IF k > Len(lib.asms) THEN <<>>
  ELSE (IF Inside(lib.asms[k], f) /\ ~OnIgnoreList(lib.asms[k])
        THEN get_instructions(lib.asms[k]) ELSE <<>>) \o CheckedInsts(f, k + 1)

\* The FDEs that check_lib has to compare.
ToCheck == {f \in LibFdes : HandWritten(f) /\ CheckedInsts(f, 1) # <<>>}

\* C4: no PC has both an error line of an FDE and a "Missing CFI" line: the
\* PCs of the instructions of an FDE are in seen also when its check raised.
C4_NoDoubleReport ==
  /\ \A j \in LinesOf("error") : \A k \in LinesOf("missing") :
       stdout[j].address # stdout[k].pc
  /\ (pc \in {"fde_loop", "lib_returned"} /\ err.raised) =>
       {all_insts[k].pc : k \in 1..Len(all_insts)} \subseteq seen

\* C4 witness: check_lib returned with an error line at a PC of the line
\* table and a "Missing CFI" line for another PC.
C4_Witness ==
  /\ pc = "lib_returned"
  /\ \E j \in LinesOf("error") : stdout[j].address \in DOMAIN srcs
  /\ LinesOf("missing") # {}

\* C5: the epilogue prints exactly one "Missing CFI" line for every PC of the
\* line table that is not in seen and none for a PC in seen, and adds the
\* number of those lines to the failure count.
C5_Coverage ==
  [][(pc = "fde_loop" /\ pc' = "lib_returned") =>
       /\ fail' = fail + Cardinality(DOMAIN srcs \ seen)
       /\ Len(stdout') = Len(stdout) + Cardinality(DOMAIN srcs \ seen)
       /\ \A p \in DOMAIN srcs :
            Cardinality({k \in (Len(stdout) + 1)..Len(stdout') :
                           stdout'[k].line = "missing" /\ stdout'[k].pc = p})
              = IF p \in seen THEN 0 ELSE 1]_vars

\* C5 witness: check_lib returned with a covered and an uncovered PC of the
\* line table.
C5_Witness ==
  /\ pc = "lib_returned"
  /\ DOMAIN srcs \cap seen # {}
  /\ DOMAIN srcs \ seen # {}
  /\ fail > Cardinality(DOMAIN srcs \ seen)

\* C6: a block inside a hand-written FDE whose name is on the ignore list for
\* the architecture is never among the instructions passed to check_fde, no
\* error line has one of its PCs as address, and once check_lib returns its
\* PCs are in seen and have no "Missing CFI" line.
C6_IgnoreSuppression ==
  \A b \in LibAsms :
    (OnIgnoreList(b) /\ \E f \in LibFdes : HandWritten(f) /\ Inside(b, f)) =>
      /\ BlockPcs(b) \cap {all_insts[k].pc : k \in 1..Len(all_insts)} = {}
      /\ \A j \in LinesOf("error") : stdout[j].address \notin BlockPcs(b)
      /\ pc = "lib_returned" =>
           /\ BlockPcs(b) \subseteq seen
           /\ \A j \in LinesOf("missing") : stdout[j].pc \notin BlockPcs(b)

\* C6 witness: check_lib returned for a library that has an ignored block
\* with a source line inside a hand-written FDE whose row declares an offset
\* that differs from the inferred one.
C6_Witness ==
  /\ pc = "lib_returned"
  /\ \E b \in LibAsms : \E f \in LibFdes :
       /\ OnIgnoreList(b)
       /\ HandWritten(f)
       /\ Inside(b, f)
       /\ BlockPcs(b) \subseteq DOMAIN srcs
       /\ f.data[1].reg = SP(lib.arch)
       /\ f.data[1].o = <<INITIAL_OFFSET(lib.arch) + PushDelta(lib.arch)>>

\* C8: no Error escapes check_lib; when it returns, the loop has run over all
\* FDEs and every FDE it has to compare whose check raises has its error
\* line, whatever the earlier FDEs raised; the loop always stands at a next
\* FDE or at the epilogue.
C8_ErrorsContained ==
  /\ pc # "lib_raised"
  /\ pc = "fde_loop" => fi \in 1..(Len(fdes) + 1)
  /\ pc = "lib_returned" =>
       /\ fi = Len(lib.fdes) + 1
       /\ \A f \in ToCheck :
            LET c == check_fde(f, CheckedInsts(f, 1), lib.srcs, lib.arch)
            IN c.err.raised =>
                 \E j \in LinesOf("error") :
                   /\ stdout[j].address = c.err.address
                   /\ stdout[j].message = c.err.message
       /\ fail >= Cardinality(LinesOf("error"))

\* C8 witness: check_lib returned after two FDEs raised, the first of them
\* an Error of get_dwarf_cfa_offsets or get_inferred_cfa_offsets.
C8_Witness ==
  /\ pc = "lib_returned"
  /\ \E j \in LinesOf("error") : \E k \in LinesOf("error") :
       /\ j < k
       /\ stdout[j].message # MismatchMessage
       /\ stdout[j].address # stdout[k].address

\* The instructions of f at which the declared offset is an integer that
\* differs from the inferred one and that have a source line.
MismatchesOf(f) ==
  LET list == CheckedInsts(f, 1)
      d == get_dwarf_cfa_offsets(list, f, lib.arch)
      inf == get_inferred_cfa_offsets(list, lib.arch)
  IN IF d.err.raised \/ inf.err.raised THEN {}
     ELSE {list[k].pc : k \in {h \in 1..Len(list) :
             /\ d.result[list[h].pc] # None
             /\ d.result[list[h].pc] # Some(inf.result[list[h].pc])
             /\ list[h].pc \in DOMAIN lib.srcs}}

\* C9 as stated: every mismatching PC with a source line has its error line.
C9_Stated ==
  pc = "lib_returned" =>
    \A f \in ToCheck : \A p \in MismatchesOf(f) :
      \E j \in LinesOf("error") : stdout[j].address = p

\* C9 amended: the first mismatching PC with a source line ends the scan of
\* its function: it is the address of the one error line of the FDE, the FDE
\* adds one failure, and the later mismatching PCs appear only in the trace
\* printed before the error line.
C9_FirstMismatchOnly ==
  pc = "lib_returned" =>
    \A f \in ToCheck :
      MismatchesOf(f) # {} =>
        LET mine == {j \in LinesOf("error") :
                       stdout[j].address \in PcsOf(CheckedInsts(f, 1))}
        IN /\ Cardinality(mine) = 1
           /\ \A j \in mine :
                /\ stdout[j].address \in MismatchesOf(f)
                /\ \A p \in MismatchesOf(f) : stdout[j].address <= p
                /\ \A p \in MismatchesOf(f) :
                     \E t \in LinesOf("trace") : t < j /\ stdout[t].pc = p
           /\ fail >= Cardinality(mine)

\* C9 witness: check_lib returned for a library with an FDE that has two
\* mismatching PCs with source lines.
C9_Witness ==
  /\ pc = "lib_returned"
  /\ \E f \in ToCheck : Cardinality(MismatchesOf(f)) >= 2

(***************************************************************************)
(* Spec: main on a command line, a call of check_lib for each library of   *)
(* the list.  What the dump tools print for a library is drawn when        *)
(* check_lib is called on it.                                              *)
(***************************************************************************)
MainAddrs == 1..MaxMainAddr

\* The list of the paths of n libraries.
LibList(n) == [k \in 1..n |-> k]

\* An `if fail > 0` that is never taken.
ExitsOn_Never(f) == FALSE

\* if fail > 0
ExitsOn(f) == f > 0

\* A write of the marker that does not look at args.out.
TouchOut_Always(out, m) == TRUE

\* if args.out: args.out.write_bytes(b""): whether the file exists afterwards
TouchOut(out, m) == IF out THEN TRUE ELSE m

\* print(fail, "ERROR(s) in", str(lib))
SummaryLine(f, l) == [line |-> "summary", fail |-> f, lib |-> l]

Init ==
  /\ \E n \in 0..MaxLibs : \E o \in BOOLEAN : args = [srcs |-> n, out |-> o]
  /\ libs = <<>>
  /\ li = 0
  /\ status = None
  /\ marker = FALSE
  /\ arch = ""
  /\ insts = <<>>
  /\ InferIdle
  /\ FdeIdle
  /\ LibIdle
  /\ SrcIdle
  /\ TaskIdle
  /\ stdout = <<>>
  /\ err = NoError
  /\ pc = "main"

\* libs = args.srcs, or the libart.so files found under $OUT; the assertion
\* fails when none is found.
MainStart ==
  /\ pc = "main"
  /\ \E found \in 0..MaxLibs :
       LET n == IF args.srcs # 0 THEN args.srcs ELSE found
       IN /\ libs' = LibList(n)
          /\ li' = 1
          /\ pc' = IF n = 0 THEN "main_aborted" ELSE "main_loop"
          /\ status' = IF n = 0 THEN Some(1) ELSE status
  /\ UNCHANGED <<srcVars, taskVars, arch, insts, inferVars, fdeVars, libVars, args, marker, stdout, err>>

\* fail = check_lib(pathlib.Path(lib)): the call.
MainCall ==
  /\ pc = "main_loop"
  /\ li <= Len(libs)
  /\ \E a \in LibArches : \E layout \in Layouts(a, MainAddrs) : lib' = LibOf(layout, a)
  /\ pc' = "check_lib"
  /\ UNCHANGED <<srcVars, taskVars, arch, insts, inferVars, fdeVars, fdes, fi, asms, seen, fail,
                 all_insts, name, mainVars, stdout, err>>

\* check_lib has returned: exit with status 1 when it counted failures, go
\* on with the next library otherwise.
MainReturn ==
  /\ pc = "lib_returned"
  /\ IF ExitsOn(fail)
     THEN /\ stdout' = Append(stdout, SummaryLine(fail, libs[li]))
          /\ status' = Some(1)
          /\ pc' = "exited"
          /\ UNCHANGED <<fdeVars, libVars, li, err>>
     ELSE /\ li' = li + 1
          /\ pc' = "main_loop"
          /\ lib' = NoLib
          /\ fdes' = <<>>
          /\ fi' = 0
          /\ asms' = <<>>
          /\ seen' = {}
          /\ all_insts' = <<>>
          /\ name' = <<>>
          /\ fde' = NoFde
          /\ srcs' = EmptyDict
          /\ err' = NoError
          /\ UNCHANGED <<dwarf_cfa_offsets, inferred_cfa_offsets, fail, status, stdout>>
  /\ UNCHANGED <<srcVars, taskVars, arch, insts, inferVars, args, libs, marker>>

\* An assertion of check_lib failed: the exception leaves main.
MainAbort ==
  /\ pc \in {"lib_aborted", "lib_raised"}
  /\ status' = Some(1)
  /\ pc' = "main_aborted"
  /\ UNCHANGED <<srcVars, taskVars, arch, insts, inferVars, fdeVars, libVars, args, libs, li, marker,
                 stdout, err>>

\* The loop is over: if args.out: args.out.write_bytes(b"")
MainFinish ==
  /\ pc = "main_loop"
  /\ li > Len(libs)
  /\ marker' = TouchOut(args.out, marker)
  /\ status' = Some(0)
  /\ pc' = "exited"
  /\ UNCHANGED <<srcVars, taskVars, arch, insts, inferVars, fdeVars, libVars, args, libs, li, stdout, err>>

Next ==
  \/ MainStart
  \/ MainCall
  \/ LibEnter
  \/ LibFde
  \/ LibEpilogue
  \/ MainReturn
  \/ MainAbort
  \/ MainFinish

Spec == Init /\ [][Next]_vars

(***************************************************************************)
(* Claims about main (checked under Spec).                                 *)
(***************************************************************************)
\* C10 as stated: the process exits with a non-zero status for failures of
\* a library only after check_lib has run on every library of the list.
C10_Stated ==
  (pc = "exited" /\ status = Some(1)) => li = Len(libs)

\* C10 amended: main exits with status 1 as soon as check_lib returns a
\* positive count, after printing that library's count; check_lib is called
\* on the next library only after a return of 0, so the libraries listed
\* after the first failing one are never checked; status 0 is set only after
\* the whole list.
C10_ExitAtFirstFailure ==
  [][/\ (pc = "lib_returned" /\ fail > 0) =>
          /\ pc' = "exited"
          /\ status' = Some(1)
          /\ li' = li
          /\ stdout' = Append(stdout, [line |-> "summary", fail |-> fail, lib |-> li])
     /\ (pc = "lib_returned" /\ fail = 0) =>
          /\ pc' = "main_loop"
          /\ li' = li + 1
          /\ status' = None
          /\ stdout' = stdout
     /\ pc' = "check_lib" =>
          /\ pc = "main_loop"
          /\ status = None
          /\ li \in 1..Len(libs)
          /\ \A k \in 1..Len(stdout) : stdout[k].line # "error" /\ stdout[k].line # "missing"
     /\ pc = "exited" => pc' = "exited"
     /\ (status' = Some(0) /\ status # Some(0)) => li > Len(libs)]_vars

\* C10 witness: the process exited with status 1 at the second of three
\* libraries, after the first one passed and before the third was checked.
C10_Witness ==
  /\ pc = "exited"
  /\ status = Some(1)
  /\ li = 2
  /\ Len(libs) = 3
  /\ LinesOf("error") # {}

\* The process has ended, by an exit or by an exception that left main.
Ended == pc \in {"exited", "main_aborted"}

\* check_lib has returned 0 for every library of the list.
AllPassed == Len(libs) >= 1 /\ li = Len(libs) + 1

\* C11: the file of --out is written if and only if --out was given and
\* check_lib returned 0 for every library of the list (main aborts on an empty
\* list before it processes anything); it is never written when a library
\* reported an error; the step that writes it sets status 0 and prints
\* nothing whether or not --out is given, and no other step reads args.out.
C11_MarkerIff ==
  /\ [](/\ marker => (args.out /\ pc = "exited" /\ status = Some(0) /\ AllPassed)
        /\ Ended => (marker <=> (args.out /\ AllPassed))
        /\ (Ended /\ status = Some(0)) <=> (pc = "exited" /\ AllPassed)
        /\ (LinesOf("error") \cup LinesOf("missing") \cup LinesOf("summary") # {}) => ~marker)
  /\ [][/\ args' = args
        /\ marker' # marker => (pc = "main_loop" /\ AllPassed)
        /\ (pc = "main_loop" /\ li > Len(libs)) =>
             (status' = Some(0) /\ stdout' = stdout /\ pc' = "exited")]_vars

\* C11 witness: the process ended with status 0 after two libraries or more
\* and the file of --out is written.
C11_Witness ==
  /\ pc = "exited"
  /\ marker
  /\ Len(libs) >= 2

(***************************************************************************)
(* The assertion of check_lib (checked under SpecLib).                     *)
(***************************************************************************)
\* C20: when the line table of the library has no row, check_lib stops at its
\* assertion before the loop over the FDEs: nothing is printed, no FDE is
\* looked at and no count is returned; it never stops there otherwise.
C20_NoSourcesAborts ==
  /\ (DOMAIN lib.srcs = {} /\ pc # "check_lib") =>
       /\ pc = "lib_aborted"
       /\ stdout = <<>>
       /\ all_insts = <<>>
       /\ seen = {}
       /\ asms = lib.asms
       /\ fde = NoFde
  /\ pc = "lib_aborted" => DOMAIN lib.srcs = {}
  /\ pc \in {"fde_loop", "lib_returned"} => DOMAIN lib.srcs # {}

\* C20 witness: check_lib stopped at the assertion for a library that has an
\* FDE and a block of instructions.
C20_Witness ==
  /\ pc = "lib_aborted"
  /\ lib.fdes # <<>>
  /\ lib.asms # <<>>

(***************************************************************************)
(* The loop over the FDEs of check_lib (checked under SpecLib).  The FDE   *)
(* ranges of a dump do not overlap and get_fde and get_asm return sorted   *)
(* lists.                                                                  *)
(***************************************************************************)
\* The loop is about to run the iteration of FDE fi.
AtFde == pc = "fde_loop" /\ fi <= Len(fdes)

\* The blocks that the step takes from the front of the deque.
Popped == SubSeq(asms, 1, Len(asms) - Len(asms'))

\* C22: the iteration of an FDE whose start is not a key of the line table
\* passes nothing to check_fde and prints nothing; the iteration of any other
\* FDE builds, in address order, the instructions of exactly the blocks of
\* the library inside [fde.pc, fde.end) that are not on the ignore list;
\* an instruction of a block inside no such FDE never gets an error line.
C22_BlocksOfFde ==
  /\ [][AtFde =>
          IF fdes[fi].pc \in DOMAIN srcs
          THEN /\ all_insts' = CheckedInsts(fdes[fi], 1)
               /\ \A k \in 1..(Len(all_insts') - 1) :
                    all_insts'[k].pc < all_insts'[k + 1].pc
          ELSE /\ all_insts' = all_insts
               /\ stdout' = stdout
               /\ fail' = fail
               /\ seen' = seen]_vars
  /\ [](\A b \in LibAsms :
          (~\E f \in LibFdes : HandWritten(f) /\ Inside(b, f)) =>
            /\ BlockPcs(b) \cap {all_insts[k].pc : k \in 1..Len(all_insts)} = {}
            /\ \A j \in LinesOf("error") : stdout[j].address \notin BlockPcs(b))

\* C22 witness: check_lib returned for a library with a checked FDE and,
\* before it, an FDE that is not hand-written and has a block inside.
C22_Witness ==
  /\ pc = "lib_returned"
  /\ \E f \in ToCheck : \E g \in LibFdes : \E b \in LibAsms :
       /\ ~HandWritten(g)
       /\ g.pc < f.pc
       /\ Inside(b, g)
       /\ all_insts = CheckedInsts(f, 1)

\* C27: the count check_lib returns is the number of FDEs it had to compare
\* whose check raised, one for each however many PCs mismatch, plus the
\* number of PCs of the line table outside seen; it is also the number of
\* error lines plus the number of "Missing CFI" lines.
C27_FailCount ==
  pc = "lib_returned" =>
    /\ fail = Cardinality({f \in ToCheck :
                             check_fde(f, CheckedInsts(f, 1), lib.srcs, lib.arch).err.raised})
                + Cardinality(DOMAIN lib.srcs \ seen)
    /\ fail = Cardinality(LinesOf("error")) + Cardinality(LinesOf("missing"))

\* C27 witness: check_lib returned 1 for a library with an FDE that has two
\* mismatching PCs.
C27_Witness ==
  /\ pc = "lib_returned"
  /\ fail = 1
  /\ \E f \in ToCheck : Cardinality(MismatchesOf(f)) >= 2

\* C29: an iteration takes blocks from the front of the deque only, so the
\* blocks are consumed once and in address order; the instructions it
\* collects come from the blocks it takes; the iteration of an FDE that is
\* not hand-written takes none.
C29_BlocksConsumedOnce ==
  [][AtFde =>
       /\ Len(asms') <= Len(asms)
       /\ asms' = SubSeq(asms, Len(asms) - Len(asms') + 1, Len(asms))
       /\ \A k \in 1..Len(Popped) : Popped[k].pc < fdes[fi].end
       /\ \A k \in 1..Len(asms') : \A h \in 1..Len(Popped) : Popped[h].pc < asms'[k].pc
       /\ fdes[fi].pc \notin DOMAIN srcs => asms' = asms
       /\ fdes[fi].pc \in DOMAIN srcs =>
            {all_insts'[k].pc : k \in 1..Len(all_insts')}
              \subseteq UNION {BlockPcs(Popped[k]) : k \in 1..Len(Popped)}]_vars

\* C29 witness: check_lib returned after a skipped FDE that left its block in
\* the deque for the next, hand-written FDE, which dropped it.
C29_Witness ==
  /\ pc = "lib_returned"
  /\ asms = <<>>
  /\ \E f \in LibFdes : \E g \in LibFdes : \E b \in LibAsms :
       /\ ~HandWritten(f)
       /\ Inside(b, f)
       /\ HandWritten(g)
       /\ f.pc < g.pc
       /\ CheckedInsts(g, 1) # <<>>

(***************************************************************************)
(* get_src.  A file name is the sequence of its stem and its suffix, a     *)
(* flag the sequence of its words, a decimal number the sequence of its    *)
(* digits.  A section of the dump is [files, rows]: the entries [index,    *)
(* name] of its file-name table and its rows [pc, line, file, flag], where *)
(* file is the index the row gives.                                        *)
(***************************************************************************)
AsmFile == <<"quick_entrypoints", ".S">>

HeaderFile == <<"asm_support", ".h">>

CcFile == <<"thread", ".cc">>

\* The decimal digits of n, as the dump prints them.
RECURSIVE Digits(_)
Digits(n) == IF n < 10 THEN <<n>> ELSE Digits(n \div 10) \o <<n % 10>>

\* f.endswith(suffix)
endswith(str, suffix) ==
  /\ Len(suffix) <= Len(str)
  /\ SubSeq(str, Len(str) - Len(suffix) + 1, Len(str)) = suffix

\* Group 1 of filename_re, (\d)+ : the group is repeated, so that it keeps
\* the last digit it matched.
filename_key(n) == <<Digits(n)[Len(Digits(n))]>>

\* {m[1]: m[2] for m in filename_re.finditer(section)}: a later entry with
\* the same key replaces an earlier one.
files(section) ==
  LET table == section.files
      keys == {filename_key(table[k].index) : k \in 1..Len(table)}
  IN [d \in keys |->
        table[CHOOSE k \in 1..Len(table) :
                /\ filename_key(table[k].index) = d
                /\ \A h \in 1..Len(table) :
                     filename_key(table[h].index) = d => h <= k].name]

\* A test of the file-name table that every section passes.
AnyAssembly_Always(fs) == TRUE

\* any(f.endswith(".S") for f in files.values())
AnyAssembly(fs) == \E d \in DOMAIN fs : endswith(fs[d], <<".S">>)

\* Group 3 of line_re, (\d+): the complete file index of the row, the key of
\* files[fn].
line_key(row) == Digits(row.file)

\* Source(int(a, 16), files[fn], l, fg)
Source(p, file, line, flag) == [pc |-> p, file |-> file, line |-> line, flag |-> flag]

\* "end_sequence" in line.flag
EndSequence(flag) == \E k \in 1..Len(flag) : flag[k] = "end_sequence"

\* filter(lambda line: "end_sequence" not in line.flag, results)
FilterRows(rows) == SelectSeq(rows, LAMBDA r : ~EndSequence(r.flag))

\* sorted(...) of rows at distinct addresses.
SortRows(rows) ==
  LET pcs == SortedSeq({rows[k].pc : k \in 1..Len(rows)})
  IN [j \in 1..Len(pcs) |-> rows[CHOOSE k \in 1..Len(rows) : rows[k].pc = pcs[j]]]

(***************************************************************************)
(* SpecSrc: get_src on one dump, one section of the for loop at a time.    *)
(* Every section has one of four file-name tables of two entries; every    *)
(* address of 1..MaxSrcPc has a row in one section, or none, whose file    *)
(* index is one that the table of the section declares.                    *)
(***************************************************************************)
File(n, nm) == [index |-> n, name |-> nm]

\* An assembly file and a header it includes; no assembly file; an assembly
\* file under a two-digit index; a header under a two-digit index.
FileTables ==
  {<<File(1, AsmFile), File(2, HeaderFile)>>,
   <<File(1, CcFile), File(2, HeaderFile)>>,
   <<File(1, HeaderFile), File(11, AsmFile)>>,
   <<File(1, AsmFile), File(11, HeaderFile)>>}

SrcPcs == 1..MaxSrcPc

Flags == {<<"is_stmt">>, <<"is_stmt", "end_sequence">>}

\* What an address holds: <<>> or <<section, file index, flag>>.
RowOptions(tables) ==
  {<<>>} \cup
  UNION {{<<s, tables[s][k].index, flag>> : k \in 1..Len(tables[s]), flag \in Flags} :
           s \in DOMAIN tables}

\* The dump with the tables `tables` and the rows placed by `place`.
DumpOf(tables, place) ==
  [s \in DOMAIN tables |->
     LET pcs == SortedSeq({p \in DOMAIN place : place[p] # <<>> /\ place[p][1] = s})
     IN [files |-> tables[s],
         rows |-> [k \in 1..Len(pcs) |->
                     [pc |-> pcs[k], line |-> pcs[k], file |-> place[pcs[k]][2],
                      flag |-> place[pcs[k]][3]]]]]

InitSrc ==
  /\ \E n \in 1..MaxSections : \E tables \in [1..n -> FileTables] :
       \E place \in [SrcPcs -> RowOptions(tables)] :
         sections = DumpOf(tables, place)
  /\ si = 1
  /\ results = <<>>
  /\ arch = ""
  /\ insts = <<>>
  /\ InferIdle
  /\ FdeIdle
  /\ LibIdle
  /\ MainIdle
  /\ TaskIdle
  /\ stdout = <<>>
  /\ err = NoError
  /\ pc = "get_src"

\* One iteration of `for section in section_re.split(proc.stdout)`: a row
\* whose file index is no key of `files` raises KeyError, which nothing
\* catches.
SrcSection ==
  /\ pc = "get_src"
  /\ si <= Len(sections)
  /\ LET section == sections[si]
         fs == files(section)
     IN IF ~AnyAssembly(fs)
        THEN /\ results' = results
             /\ pc' = "get_src"
        ELSE IF \E k \in 1..Len(section.rows) : line_key(section.rows[k]) \notin DOMAIN fs
        THEN /\ results' = results
             /\ pc' = "src_crashed"
        ELSE /\ results' = results \o
                  [k \in 1..Len(section.rows) |->
                     Source(section.rows[k].pc, fs[line_key(section.rows[k])],
                            section.rows[k].line, section.rows[k].flag)]
             /\ pc' = "get_src"
  /\ si' = si + 1
  /\ UNCHANGED <<arch, insts, inferVars, fdeVars, libVars, mainVars, taskVars,
                 sections, stdout, err>>

\* return sorted(filter(...))
SrcReturn ==
  /\ pc = "get_src"
  /\ si > Len(sections)
  /\ results' = SortRows(FilterRows(results))
  /\ pc' = "src_returned"
  /\ UNCHANGED <<arch, insts, inferVars, fdeVars, libVars, mainVars, taskVars,
                 sections, si, stdout, err>>

NextSrc == SrcSection \/ SrcReturn

SpecSrc == InitSrc /\ [][NextSrc]_vars

(***************************************************************************)
(* Claims about get_src (checked under SpecSrc).                           *)
(***************************************************************************)
\* The rows of the dump, as pairs <<section, row>>.
DumpRows ==
  UNION {{<<s, k>> : k \in 1..Len(sections[s].rows)} : s \in 1..Len(sections)}

RowOf(sk) == sections[sk[1]].rows[sk[2]]

\* The name that the table of section s declares for the complete index n.
DeclaredName(s, n) ==
  sections[s].files[CHOOSE k \in 1..Len(sections[s].files) :
                      sections[s].files[k].index = n].name

\* The name that get_src reads for index n in section s: that of the last
\* entry whose index ends in the last digit of n.
ReadName(s, n) ==
  sections[s].files[CHOOSE k \in 1..Len(sections[s].files) :
                      /\ sections[s].files[k].index % 10 = n % 10
                      /\ \A h \in 1..Len(sections[s].files) :
                           sections[s].files[h].index % 10 = n % 10 => h <= k].name

\* The names that get_src reads from the table of section s.
ReadNames(s) ==
  {ReadName(s, sections[s].files[k].index) : k \in 1..Len(sections[s].files)}

IsAssembly(nm) == nm[Len(nm)] = ".S"

HasEndSequence(flag) == "end_sequence" \in {flag[k] : k \in 1..Len(flag)}

\* The rows that get_src keeps: those of the sections in which it reads some
\* assembly name, the end_sequence rows left out.
KeptRows ==
  {sk \in DumpRows :
     /\ \E nm \in ReadNames(sk[1]) : IsAssembly(nm)
     /\ ~HasEndSequence(RowOf(sk).flag)}

\* C21 as stated: every row returned has a file name that ends in .S and is
\* not an end_sequence row, and comes from a row of the dump that the table
\* of its section attributes to a file that ends in .S.
C21_Stated ==
  pc = "src_returned" =>
    \A j \in 1..Len(results) :
      /\ IsAssembly(results[j].file)
      /\ ~HasEndSequence(results[j].flag)
      /\ \A sk \in DumpRows :
           RowOf(sk).pc = results[j].pc => IsAssembly(DeclaredName(sk[1], RowOf(sk).file))

\* C21: the rows returned are, in address order, the rows other than
\* end_sequence rows of the sections in whose file-name table get_src reads
\* at least one name that ends in .S, each with the name read for its index,
\* whether that name ends in .S or not.
C21_SectionFilter ==
  pc = "src_returned" =>
    /\ {results[j].pc : j \in 1..Len(results)} = {RowOf(sk).pc : sk \in KeptRows}
    /\ \A j \in 1..Len(results) : \A h \in 1..Len(results) :
         j < h => results[j].pc < results[h].pc
    /\ \A j \in 1..Len(results) : \A sk \in KeptRows :
         RowOf(sk).pc = results[j].pc =>
           /\ results[j].file = ReadName(sk[1], RowOf(sk).file)
           /\ results[j].flag = RowOf(sk).flag
           /\ results[j].line = RowOf(sk).line

\* C21 witness: get_src returned a row of a header file from a section that
\* declares an assembly file too, and dropped a row of a section without
\* assembly file.
C21_Witness ==
  /\ pc = "src_returned"
  /\ \E j \in 1..Len(results) : \E sk \in DumpRows :
       /\ RowOf(sk).pc = results[j].pc
       /\ results[j].file = HeaderFile
       /\ DeclaredName(sk[1], RowOf(sk).file) = HeaderFile
  /\ \E sk \in DumpRows :
       /\ \A nm \in ReadNames(sk[1]) : ~IsAssembly(nm)
       /\ ~HasEndSequence(RowOf(sk).flag)

\* C30 as stated: get_src finds the file index of every row, and every row
\* returned has the name that the table of its section declares for the
\* complete file index of the row.
C30_Stated ==
  /\ pc # "src_crashed"
  /\ pc = "src_returned" =>
       \A j \in 1..Len(results) : \A sk \in DumpRows :
         RowOf(sk).pc = results[j].pc =>
           results[j].file = DeclaredName(sk[1], RowOf(sk).file)

(***************************************************************************)
(* SpecTasks: check_lib called by two tasks at once, one for an i386       *)
(* library and one for an aarch64 library.  The locals of a call are the   *)
(* task's own; `arch` is the one module-level global, written by line 252  *)
(* and read by the ignore test, get_dwarf_cfa_offsets and                  *)
(* get_inferred_cfa_offsets; stdout is the one of the process.  A step of  *)
(* a task is the entry of check_lib, one iteration of its for loop or its  *)
(* epilogue; `used` collects the values of `arch` that the task has read.  *)
(* Every address of a library starts an FDE of one instruction that has a  *)
(* source line.                                                            *)
(***************************************************************************)
TaskArch == <<"i386", "aarch64">>

Tasks == DOMAIN TaskArch

TaskAddrs == 1..MaxTaskAddr

TaskLibs(a) ==
  {LibOf(layout, a) :
     layout \in [TaskAddrs ->
                   [block : {<<n, t>> : n \in LibNames(a), t \in {PushText(a), PlainText(a)}},
                    fde : {<<"start", "lo">>, <<"start", "hi">>},
                    src : {TRUE}]]}

\* get_arch that answers i386 for every library.
get_arch_Fixed(l) == "i386"

\* get_arch(lib): the architecture that the file header of the library names.
get_arch(l) == l.arch

\* The locals of a call of check_lib that has not begun.
NewTask(l) ==
  [lib |-> l, fdes |-> <<>>, fi |-> 0, asms |-> <<>>, srcs |-> EmptyDict, seen |-> {},
   fail |-> 0, all_insts |-> <<>>, name |-> <<>>, err |-> NoError, used |-> {},
   pc |-> "check_lib"]

\* check_lib(lib) run from entry to return with nothing else running: the
\* for loop from FDE k on, then the epilogue.
RECURSIVE LoopFrom(_, _, _)
LoopFrom(st, l, k) ==
  IF k > Len(l.fdes) \/ st.escaped
  THEN st
  ELSE LoopFrom(FdeIteration(st, l.fdes[k], l.srcs, get_arch(l)), l, k + 1)

check_lib(l) ==
  LET st == LoopFrom([asms |-> l.asms, seen |-> {}, fail |-> 0, all_insts |-> <<>>,
                      name |-> <<>>, stdout |-> <<>>, err |-> NoError,
                      escaped |-> FALSE], l, 1)
  IN [returned |-> HasSources(l.srcs) /\ ~st.escaped,
      fail |-> st.fail + Len(Uncovered(l.srcs, st.seen))]

InitTasks ==
  /\ \E l1 \in TaskLibs(TaskArch[1]) : \E l2 \in TaskLibs(TaskArch[2]) :
       tasks = <<NewTask(l1), NewTask(l2)>>
  /\ arch = ""
  /\ insts = <<>>
  /\ InferIdle
  /\ FdeIdle
  /\ LibIdle
  /\ MainIdle
  /\ SrcIdle
  /\ stdout = <<>>
  /\ err = NoError
  /\ pc = "tasks"

\* Lines 251-260 in task t.
TaskEnter(t) ==
  /\ tasks[t].pc = "check_lib"
  /\ arch' = get_arch(tasks[t].lib)
  /\ tasks' = [tasks EXCEPT
                 ![t].fdes = tasks[t].lib.fdes,
                 ![t].asms = tasks[t].lib.asms,
                 ![t].srcs = tasks[t].lib.srcs,
                 ![t].seen = {},
                 ![t].fail = 0,
                 ![t].fi = 1,
                 ![t].pc = IF HasSources(tasks[t].lib.srcs)
                           THEN "fde_loop" ELSE "lib_aborted"]
  /\ UNCHANGED <<insts, inferVars, fdeVars, libVars, mainVars, srcVars, stdout, err, pc>>

\* One iteration of `for fde in fdes` in task t, with the `arch` of the moment.
TaskFde(t) ==
  /\ tasks[t].pc = "fde_loop"
  /\ tasks[t].fi <= Len(tasks[t].fdes)
  /\ LET me == tasks[t]
         st == FdeIteration([asms |-> me.asms, seen |-> me.seen, fail |-> me.fail,
                             all_insts |-> me.all_insts, name |-> me.name,
                             stdout |-> <<>>, err |-> NoError, escaped |-> FALSE],
                            me.fdes[me.fi], me.srcs, arch)
     IN /\ tasks' = [tasks EXCEPT
                       ![t].asms = st.asms,
                       ![t].seen = st.seen,
                       ![t].fail = st.fail,
                       ![t].all_insts = st.all_insts,
                       ![t].name = st.name,
                       ![t].err = st.err,
                       ![t].fi = me.fi + 1,
                       ![t].used = me.used \cup {arch},
                       ![t].pc = IF st.escaped THEN "lib_raised" ELSE "fde_loop"]
        /\ stdout' = stdout \o st.stdout
  /\ UNCHANGED <<arch, insts, inferVars, fdeVars, libVars, mainVars, srcVars, err, pc>>

\* The loop over the uncovered PCs and `return fail` in task t.
TaskEpilogue(t) ==
  /\ tasks[t].pc = "fde_loop"
  /\ tasks[t].fi > Len(tasks[t].fdes)
  /\ stdout' = stdout \o MissingLines(tasks[t].srcs, tasks[t].seen)
  /\ tasks' = [tasks EXCEPT
                 ![t].fail = tasks[t].fail + Len(Uncovered(tasks[t].srcs, tasks[t].seen)),
                 ![t].pc = "lib_returned"]
  /\ UNCHANGED <<arch, insts, inferVars, fdeVars, libVars, mainVars, srcVars, err, pc>>

NextTasks == \E t \in Tasks : TaskEnter(t) \/ TaskFde(t) \/ TaskEpilogue(t)

SpecTasks == InitTasks /\ [][NextTasks]_vars

(***************************************************************************)
(* Claims about check_lib run as tasks (checked under SpecTasks).          *)
(***************************************************************************)
\* The architecture of the library of task t.
OwnArch(t) == tasks[t].lib.arch

\* C23 as stated: in every interleaving a task reads no architecture other
\* than that of its own library, and returns the failure count that
\* check_lib returns for its library when it runs alone.
C23_Stated ==
  \A t \in DOMAIN tasks :
    /\ tasks[t].used \subseteq {OwnArch(t)}
    /\ tasks[t].pc = "lib_returned" => tasks[t].fail = check_lib(tasks[t].lib).fail

\* C23: the tasks share `arch`.  A task writes it when it enters check_lib,
\* with the architecture of its own library, and no other step changes it;
\* as long as no other task has entered, a task reads its own architecture
\* only; and a task that returns after it read its own architecture only
\* returns the failure count of check_lib run alone on its library.
C23_SharedArch ==
  /\ [](\A t \in DOMAIN tasks :
          /\ (\A u \in DOMAIN tasks \ {t} : tasks[u].pc = "check_lib") =>
               tasks[t].used \subseteq {OwnArch(t)}
          /\ (tasks[t].pc = "lib_returned" /\ tasks[t].used \subseteq {OwnArch(t)}) =>
               tasks[t].fail = check_lib(tasks[t].lib).fail)
  /\ [][\A t \in DOMAIN tasks :
          /\ (tasks[t].pc = "check_lib" /\ tasks'[t].pc # "check_lib") =>
               arch' = OwnArch(t)
          /\ (\A u \in DOMAIN tasks : tasks[u].pc = "check_lib" <=> tasks'[u].pc = "check_lib") =>
               arch' = arch]_vars

\* C23 witness: both tasks returned; one read its own architecture only and
\* returned the count of check_lib run alone, the other read the architecture
\* of the first and returned another count than alone.
C23_Witness ==
  \E t \in DOMAIN tasks : \E u \in DOMAIN tasks :
    /\ tasks[t].pc = "lib_returned"
    /\ tasks[u].pc = "lib_returned"
    /\ tasks[t].used = {OwnArch(t)}
    /\ tasks[t].fail = check_lib(tasks[t].lib).fail
    /\ OwnArch(t) \in tasks[u].used
    /\ OwnArch(u) # OwnArch(t)
    /\ tasks[u].fail # check_lib(tasks[u].lib).fail

====
